---------------------------- MODULE Spec2Model ----------------------------
(***************************************************************************)
(* Effect Forge AI: the compliance scoring and enforcement of the server   *)
(* (ConstitutionValidatorService), of the client (ConstitutionEngine), the *)
(* generation request handling of the server (routes.ts, storage.ts), the  *)
(* update methods of the store, the AI engine behind its routes            *)
(* (ai-engine.ts) and the template lookup of client and server.            *)
(*                                                                         *)
(* A code text is kept as the text it started from (base), the fragments   *)
(* inserted after the first 'init() {' / 'this.init();' / 'var time = ...' *)
(* (ins, most recent first) and the fragments appended at its end (app).   *)
(* Two texts derived from the same base are equal exactly when their ins   *)
(* and app sequences are equal, and String.includes(marker) is true when   *)
(* the base or one of the fragments contains the marker.                   *)
(*                                                                         *)
(* Scores are fractions in the source (floating point); here each is kept  *)
(* as an integer numerator over a fixed denominator so that comparisons    *)
(* with the thresholds and Math.round are exact.                           *)
(***************************************************************************)
EXTENDS Integers, Sequences, FiniteSets, TLC

VARIABLES
  side,        \* which part this behaviour exercises: "server", "client", "routes",
               \* "store", "engine", "analysis", "templates"
  srvEffect,   \* server: the Effect currently held (input, then result of each call)
  srvInput,    \* server: the Effect handed to the last validateAndEnforce call
  srvReport,   \* server: the ConstitutionCompliance computed by the last call
  srvOp,       \* server: the last call made ("none", "validate", "enforce")
  srvRuns,     \* server: number of validateAndEnforce calls made so far
  srvScorings, \* server: what each validateCompliance call on the held effect returned and left
  cliEffect,   \* client: the GeneratedEffect currently held
  cliInput,    \* client: the value of the effect when enforceCompliance was last called
  cliReport,   \* client: the ConstitutionCompliance computed by the last call
  cliRuns,     \* client: number of enforceCompliance calls made so far
  cliScorings, \* client: what each validateCompliance call on the held effect returned and left
  effects,     \* MemStorage.effects: id -> Effect
  aiSessions,  \* MemStorage.aiSessions: id -> AiSession
  uuids,       \* number of randomUUID() calls made so far (each call gives a fresh id)
  requests,    \* the generate requests: position and locals of handler and background run
  files,       \* MemStorage.files: id -> File
  callers,     \* the concurrent callers of the store's update methods: position, calls made
  applied,     \* per table, the updates the store has carried out, in the order it did
  isInitialized, \* AIEngineService.isInitialized
  neuralModel,   \* AIEngineService.neuralModel: "null", "created" (empty vocabulary), "loaded"
  startup,       \* registerRoutes: "start", "initializing", "listening"
  initCalls,     \* the POST /api/ai/initialize requests: position of each
  content,       \* the text handed to the last analysis
  response,      \* what the last request to the engine answered
  tplDna,        \* template selection: the EffectDNA given
  tplType,       \* template selection: the type given
  tplResult      \* template selection: position and outcome of the lookup

srvVars == <<srvEffect, srvInput, srvReport, srvOp, srvRuns, srvScorings>>
cliVars == <<cliEffect, cliInput, cliReport, cliRuns, cliScorings>>
routeVars == <<effects, aiSessions, uuids, requests>>
storeVars == <<files, callers, applied>>
\* the variables neither the compliance engines nor the generate route touch
engineVars == <<isInitialized, neuralModel, startup, initCalls, content, response>>
tplVars == <<tplDna, tplType, tplResult>>
auxVars == <<storeVars, engineVars, tplVars>>
vars == <<side, srvVars, cliVars, routeVars, auxVars>>

\* Number of successive enforcement calls explored.
MaxRuns == 2
\* Number of generate requests explored (they run interleaved).
MaxRequests == 2

\* null for a nullable code column
Null == [base |-> "null", ins |-> <<>>, app |-> <<>>, markers |-> {}]
NoEffect == [none |-> "effect"]
NoReport == [none |-> "report"]

Max(a, b) == IF a >= b THEN a ELSE b
Min(a, b) == IF a <= b THEN a ELSE b

\* Math.round(n / d) for d > 0: the nearest integer, halves rounded up.
Round(n, d) == (2 * n + d) \div (2 * d)

-----------------------------------------------------------------------------
(* Code texts *)

ServerMarkers ==
  {"achievement", "adaptiveParameters", "advanced", "antialiasing", "autoCalibrate",
   "bindEvents", "compatibility", "crossBrowser", "detectPlatform", "deviceCapacity",
   "engaging", "feedback", "friction", "glow", "gravity", "immersive", "init()",
   "innovative", "interactive", "livePreview", "mousemove", "oneClick",
   "optimizeForNextFrame", "performanceMonitor", "physics", "polyfill", "progress",
   "quality", "random", "render()", "requestAnimationFrame", "revolutionary",
   "setupCrossBrowserCompat", "smoothing", "spectacular", "start()", "surprise",
   "variation", "wowFactor"}

\* The markers (and insertion anchors) each starting text contains.
BaseMarkers(base) ==
  CASE base = "null"     -> {}
    [] base = "empty"    -> {}
    [] base = "plain"    -> {}
    [] base = "particle" -> {"init() {", "init()", "this.init();", "optimizeForNextFrame",
                             "render()", "requestAnimationFrame"}
    [] base = "full"     -> ServerMarkers \cup {"init() {", "this.init();", "advancedPhysics"}
    [] base = "transform" -> {}
    [] base = "particleSetup" -> {"this.init();", "init() {", "init()", "optimizeForNextFrame",
                                  "render()", "requestAnimationFrame", "autoCalibrate",
                                  "detectPlatform", "performanceMonitor",
                                  "setupCrossBrowserCompat"}
    [] base = "aeExpr"   -> {"var time = thisComp.time;"}

\* The markers each fragment added by the server's enforcement contains
\* (for an inserted fragment: the text put after the anchor, which stays).
FragMarkers(frag) ==
  CASE frag = "adaptiveCode"   -> {"autoCalibrate", "deviceCapacity"}
    [] frag = "adaptiveInit"   -> {"autoCalibrate"}
    [] frag = "perfCode"       -> {"optimizeForNextFrame"}
    [] frag = "perfInit"       -> {}
    [] frag = "compatCode"     -> {"detectPlatform", "requestAnimationFrame", "setupCrossBrowserCompat"}
    [] frag = "compatInit"     -> {"detectPlatform", "setupCrossBrowserCompat"}
    [] frag = "experienceCode" -> {"livePreview", "mousemove", "start()"}
    [] frag = "experienceInit" -> {}
    [] frag = "visualCode"     -> {"friction", "glow", "gravity", "spectacular"}
    [] frag = "visualInit"     -> {}
    [] frag = "addictiveCode"  -> {"random"}
    [] frag = "addictiveInit"  -> {}
    [] frag = "cssPerf"        -> {}
    [] frag = "cssVisual"      -> {}
    [] frag = "aePerf"         -> {}
    \* fragments of the client engine (markers the client looks for)
    [] frag = "cliPerfMonitor"   -> {"performanceMonitor"}
    [] frag = "cliOptimize"      -> {"optimizeForNextFrame"}
    [] frag = "cliAutoCalibrate" -> {"autoCalibrate"}
    [] frag = "cliDetectPlatform" -> {"detectPlatform"}
    [] frag = "cliOneClick"      -> {"oneClick", "livePreview"}
    [] frag = "cliWowFactor"     -> {"wowFactor"}
    [] frag = "cliImmersive"     -> {"immersive"}
    [] frag = "cliDomination"    -> {}

\* A code text: the starting text, the fragments put after an anchor (latest
\* first), the blocks appended, and the markers the whole text contains.
MkCode(base) == [base |-> base, ins |-> <<>>, app |-> <<>>, markers |-> BaseMarkers(base)]

\* JavaScript truthiness of a nullable string: neither null nor "".
Truthy(code) == code.base \notin {"null", "empty"}

\* code.includes(marker)
Includes(code, marker) == marker \in code.markers

\* code.replace(anchor, anchor + frag) where the anchor is found
InsertAfterAnchor(code, frag) ==
  [code EXCEPT !.ins = <<frag>> \o @, !.markers = @ \cup FragMarkers(frag)]

\* code + block
AppendBlock(code, block) ==
  [code EXCEPT !.app = Append(@, block), !.markers = @ \cup FragMarkers(block)]

\* a || b || c || '' over nullable strings, as a code text
FirstTruthy(codes) ==
  IF \E i \in DOMAIN codes : Truthy(codes[i])
  THEN codes[CHOOSE i \in DOMAIN codes :
               Truthy(codes[i]) /\ \A j \in 1..(i - 1) : ~Truthy(codes[j])]
  ELSE MkCode("empty")

\* code.replace(anchor, anchor-followed-by-frag) + block
ReplaceAndAppend(code, anchor, initFrag, block) ==
  AppendBlock(IF Includes(code, anchor) THEN InsertAfterAnchor(code, initFrag) ELSE code,
              block)

-----------------------------------------------------------------------------
(* Server: ConstitutionValidatorService *)

\* Article weights in tenths of a percent (14.3 and 14.2).
articles ==
  <<[id |-> 1, weight |-> 143], [id |-> 2, weight |-> 143], [id |-> 3, weight |-> 143],
    [id |-> 4, weight |-> 143], [id |-> 5, weight |-> 143], [id |-> 6, weight |-> 143],
    [id |-> 7, weight |-> 142]>>

\* Common denominator of fps/60*40, (renderTime - 16.67)*2 and (memory-256)/256*20.
PerfDen == 3 * 100 * 64

\* Article I. num / PerfDen is the unrounded score.
validatePerformanceAbsolue(effect) ==
  LET fpsScore    == IF effect.targetFps >= 60 THEN 40 * PerfDen
                     ELSE effect.targetFps * 40 * (PerfDen \div 60)
      renderScore == IF effect.renderTime * 100 <= 1667 THEN 40 * PerfDen
                     ELSE Max(0, 40 * PerfDen
                                 - (effect.renderTime * 100 - 1667) * 2 * (PerfDen \div 100))
      memoryScore == IF effect.memoryUsage <= 256 THEN 20 * PerfDen
                     ELSE Max(0, 20 * PerfDen
                                 - (effect.memoryUsage - 256) * 20 * (PerfDen \div 256))
      score       == fpsScore + renderScore + memoryScore
  IN  [score |-> Round(score, PerfDen), compliant |-> score >= 90 * PerfDen]

\* Article II
validateIntelligenceAdaptative(effect) ==
  LET code  == FirstTruthy(<<effect.javascriptCode, effect.cssCode, effect.afterEffectsCode>>)
      score == (IF Includes(code, "autoCalibrate") \/ Includes(code, "adaptiveParameters")
                THEN 50 ELSE 0)
             + (IF Includes(code, "detectPlatform") \/ Includes(code, "deviceCapacity")
                THEN 25 ELSE 0)
             + (IF Includes(code, "performanceMonitor") \/ Includes(code, "optimizeForNextFrame")
                THEN 25 ELSE 0)
  IN  [score |-> Round(score, 1), compliant |-> score >= 90]

\* Article III. num / 3 is the unrounded score.
validatePolyvalenceUniverselle(effect) ==
  LET platforms == Cardinality({i \in 1..3 :
                     Truthy(<<effect.javascriptCode, effect.cssCode, effect.afterEffectsCode>>[i])})
      code  == FirstTruthy(<<effect.javascriptCode, effect.cssCode>>)
      score == platforms * 40
             + (IF Includes(code, "crossBrowser") \/ Includes(code, "polyfill")
                   \/ Includes(code, "compatibility")
                THEN 30 * 3 ELSE 0)
             + (IF Includes(code, "detectPlatform") /\ Includes(code, "setupCrossBrowserCompat")
                THEN 30 * 3 ELSE 0)
  IN  [score |-> Round(score, 3), compliant |-> score >= 90 * 3]

\* Article IV
validateExperienceParfaite(effect) ==
  LET code  == FirstTruthy(<<effect.javascriptCode>>)
      score == (IF Includes(code, "oneClick") \/ Includes(code, "start()")
                   \/ Includes(code, "init()")
                THEN 50 ELSE 0)
             + (IF Includes(code, "livePreview") \/ Includes(code, "render()")
                   \/ Includes(code, "requestAnimationFrame")
                THEN 30 ELSE 0)
             + (IF Includes(code, "bindEvents") \/ Includes(code, "interactive")
                   \/ Includes(code, "mousemove")
                THEN 20 ELSE 0)
  IN  [score |-> Round(score, 1), compliant |-> score >= 90]

\* Article V
validateImpactVisuel(effect) ==
  LET code  == FirstTruthy(<<effect.javascriptCode, effect.cssCode>>)
      score == (IF Includes(code, "wowFactor") \/ Includes(code, "spectacular")
                   \/ Includes(code, "glow")
                THEN 40 ELSE 0)
             + (IF Includes(code, "physics") \/ Includes(code, "gravity")
                   \/ Includes(code, "friction")
                THEN 30 ELSE 0)
             + (IF Includes(code, "antialiasing") \/ Includes(code, "smoothing")
                   \/ Includes(code, "quality")
                THEN 30 ELSE 0)
  IN  [score |-> Round(score, 1), compliant |-> score >= 90]

\* Article VI
validateEcosystemeAddictif(effect) ==
  LET code  == FirstTruthy(<<effect.javascriptCode>>)
      score == (IF Includes(code, "immersive") \/ Includes(code, "engaging")
                   \/ Includes(code, "interactive")
                THEN 50 ELSE 0)
             + (IF Includes(code, "surprise") \/ Includes(code, "variation")
                   \/ Includes(code, "random")
                THEN 30 ELSE 0)
             + (IF Includes(code, "progress") \/ Includes(code, "achievement")
                   \/ Includes(code, "feedback")
                THEN 20 ELSE 0)
  IN  [score |-> Round(score, 1), compliant |-> score >= 90]

\* The 40% part of Article VII, times 3: ((sum of 0|100 over the six flags) / 6) / 100 * 40.
otherArticlesPart(effect) ==
  ( (IF effect.performanceCompliant THEN 100 ELSE 0)
  + (IF effect.intelligenceAdaptive THEN 100 ELSE 0)
  + (IF effect.universalCompatible THEN 100 ELSE 0)
  + (IF effect.perfectExperience THEN 100 ELSE 0)
  + (IF effect.visualImpact THEN 100 ELSE 0)
  + (IF effect.addictiveEcosystem THEN 100 ELSE 0) ) \div 5

\* Article VII. num / 3 is the unrounded score.
validateDominationConcurrentielle(effect) ==
  LET code  == FirstTruthy(<<effect.javascriptCode, effect.cssCode>>)
      score == otherArticlesPart(effect)
             + (IF Includes(code, "innovative") \/ Includes(code, "revolutionary")
                   \/ Includes(code, "advanced")
                THEN 30 * 3 ELSE 0)
             + (IF effect.renderTime < 10 /\ effect.targetFps >= 60 /\ effect.memoryUsage < 200
                THEN 30 * 3 ELSE 0)
  IN  [score |-> Round(score, 3), compliant |-> score >= 95 * 3]

ArticleResult(i, effect) ==
  CASE i = 1 -> validatePerformanceAbsolue(effect)
    [] i = 2 -> validateIntelligenceAdaptative(effect)
    [] i = 3 -> validatePolyvalenceUniverselle(effect)
    [] i = 4 -> validateExperienceParfaite(effect)
    [] i = 5 -> validateImpactVisuel(effect)
    [] i = 6 -> validateEcosystemeAddictif(effect)
    [] i = 7 -> validateDominationConcurrentielle(effect)

\* A weighted sum that leaves Article VII out.
RECURSIVE sumWithoutDomination(_, _)
sumWithoutDomination(details, n) ==
  IF n = 0 THEN 0
  ELSE sumWithoutDomination(details, n - 1)
       + (IF n = 7 THEN 0 ELSE details[n].score * articles[n].weight)

\* totalWeightedScore after the first n articles, times 1000.
RECURSIVE totalWeightedScore(_, _)
totalWeightedScore(details, n) ==
  IF n = 0 THEN 0
  ELSE totalWeightedScore(details, n - 1) + details[n].score * articles[n].weight

\* A scorer that keeps the number of times it has scored and lets it weigh on
\* the total.
validateComplianceCounting(effect) ==
  LET details == [i \in 1..7 |-> ArticleResult(i, effect)]
  IN  [totalScore            |-> Round(totalWeightedScore(details, 7), 1000) - Len(srvScorings),
       performanceCompliant  |-> details[1].compliant,
       intelligenceAdaptive  |-> details[2].compliant,
       universalCompatible   |-> details[3].compliant,
       perfectExperience     |-> details[4].compliant,
       visualImpact          |-> details[5].compliant,
       addictiveEcosystem    |-> details[6].compliant,
       competitiveDomination |-> details[7].compliant,
       details               |-> details]

validateCompliance(effect) ==
  LET details == [i \in 1..7 |-> ArticleResult(i, effect)]
  IN  [totalScore            |-> Round(totalWeightedScore(details, 7), 1000),
       performanceCompliant  |-> details[1].compliant,
       intelligenceAdaptive  |-> details[2].compliant,
       universalCompatible   |-> details[3].compliant,
       perfectExperience     |-> details[4].compliant,
       visualImpact          |-> details[5].compliant,
       addictiveEcosystem    |-> details[6].compliant,
       competitiveDomination |-> details[7].compliant,
       details               |-> details]

addAdaptiveIntelligence(code) == ReplaceAndAppend(code, "init() {", "adaptiveInit", "adaptiveCode")
addPerformanceOptimizations(code) == ReplaceAndAppend(code, "init() {", "perfInit", "perfCode")
addUniversalCompatibility(code) == ReplaceAndAppend(code, "init() {", "compatInit", "compatCode")
addPerfectExperience(code) == ReplaceAndAppend(code, "init() {", "experienceInit", "experienceCode")
addVisualImpact(code) == ReplaceAndAppend(code, "init() {", "visualInit", "visualCode")
addAddictiveFeatures(code) == ReplaceAndAppend(code, "init() {", "addictiveInit", "addictiveCode")

enhanceJavaScriptCode(code, compliance) ==
  LET e1 == IF ~compliance.intelligenceAdaptive THEN addAdaptiveIntelligence(code) ELSE code
      e2 == IF ~compliance.performanceCompliant THEN addPerformanceOptimizations(e1) ELSE e1
      e3 == IF ~compliance.universalCompatible THEN addUniversalCompatibility(e2) ELSE e2
      e4 == IF ~compliance.perfectExperience THEN addPerfectExperience(e3) ELSE e3
      e5 == IF ~compliance.visualImpact THEN addVisualImpact(e4) ELSE e4
      e6 == IF ~compliance.addictiveEcosystem THEN addAddictiveFeatures(e5) ELSE e5
  IN  e6

enhanceCSSCode(code, compliance) ==
  LET e1 == IF ~compliance.performanceCompliant
            THEN AppendBlock(code, "cssPerf") ELSE code
      e2 == IF ~compliance.visualImpact
            THEN AppendBlock(e1, "cssVisual") ELSE e1
  IN  e2

enhanceAfterEffectsCode(code, compliance) ==
  IF ~compliance.performanceCompliant /\ Includes(code, "var time = thisComp.time;")
  THEN InsertAfterAnchor(code, "aePerf")
  ELSE code

enforceConstitutionalCompliance(effect, compliance) ==
  LET e1 == IF Truthy(effect.javascriptCode)
            THEN [effect EXCEPT !.javascriptCode = enhanceJavaScriptCode(@, compliance)]
            ELSE effect
      e2 == IF Truthy(e1.cssCode)
            THEN [e1 EXCEPT !.cssCode = enhanceCSSCode(@, compliance)]
            ELSE e1
      e3 == IF Truthy(e2.afterEffectsCode)
            THEN [e2 EXCEPT !.afterEffectsCode = enhanceAfterEffectsCode(@, compliance)]
            ELSE e2
  IN  IF ~compliance.performanceCompliant
      THEN [e3 EXCEPT !.renderTime  = Min(@, 15),
                      !.targetFps   = Max(@, 60),
                      !.memoryUsage = Min(@, 256)]
      ELSE e3

\* The effect with the flags and score of a compliance report copied onto it.
WithCompliance(effect, compliance) ==
  [effect EXCEPT !.performanceCompliant  = compliance.performanceCompliant,
                 !.intelligenceAdaptive  = compliance.intelligenceAdaptive,
                 !.universalCompatible   = compliance.universalCompatible,
                 !.perfectExperience     = compliance.perfectExperience,
                 !.visualImpact          = compliance.visualImpact,
                 !.addictiveEcosystem    = compliance.addictiveEcosystem,
                 !.competitiveDomination = compliance.competitiveDomination,
                 !.constitutionScore     = compliance.totalScore]

\* validateAndEnforce with the enforcement step run a second time.
validateAndEnforceTwice(effect) ==
  LET compliance     == CHOOSE x \in {validateCompliance(effect)} : TRUE
      enforcedEffect == WithCompliance(effect, compliance)
  IN  IF compliance.totalScore < 90
      THEN enforceConstitutionalCompliance(
             enforceConstitutionalCompliance(enforcedEffect, compliance), compliance)
      ELSE enforcedEffect

\* validateAndEnforce with the enforcement step run whatever the total is.
validateAndEnforceAlways(effect) ==
  LET compliance     == CHOOSE x \in {validateCompliance(effect)} : TRUE
      enforcedEffect == WithCompliance(effect, compliance)
  IN  enforceConstitutionalCompliance(enforcedEffect, compliance)

validateAndEnforce(effect) ==
  LET compliance     == CHOOSE x \in {validateCompliance(effect)} : TRUE
      enforcedEffect == WithCompliance(effect, compliance)
  IN  IF compliance.totalScore < 90
      THEN enforceConstitutionalCompliance(enforcedEffect, compliance)
      ELSE enforcedEffect

-----------------------------------------------------------------------------
(* Server: the effects the validator is exercised on *)

FpsValues == {30, 60, 120}
RenderTimeValues == {5, 17, 40}
MemoryValues == {64, 380, 1024}
JsCodes == {Null, MkCode("empty"), MkCode("plain"), MkCode("particle"), MkCode("full")}
CssCodes == {Null, MkCode("transform")}
AeCodes == {Null, MkCode("aeExpr")}

MkEffect(js, css, ae, rt, mem, fps, flag, cs) ==
  [javascriptCode |-> js, cssCode |-> css, afterEffectsCode |-> ae,
   renderTime |-> rt, memoryUsage |-> mem, targetFps |-> fps,
   constitutionScore |-> cs,
   performanceCompliant |-> flag, intelligenceAdaptive |-> flag,
   universalCompatible |-> flag, perfectExperience |-> flag,
   visualImpact |-> flag, addictiveEcosystem |-> flag,
   competitiveDomination |-> flag]

\* Effects as the generator or the store hands them over: flags and score at
\* the schema defaults (false, 0) or as on the stored sample (true, 98).
ServerEffects ==
  {MkEffect(js, css, ae, rt, mem, fps, fl[1], fl[2]) :
     js \in JsCodes, css \in CssCodes, ae \in AeCodes, rt \in RenderTimeValues,
     mem \in MemoryValues, fps \in FpsValues, fl \in {<<FALSE, 0>>, <<TRUE, 98>>}}

ServerIdle ==
  /\ srvEffect = NoEffect /\ srvInput = NoEffect /\ srvReport = NoReport
  /\ srvOp = "none" /\ srvRuns = 0 /\ srvScorings = <<>>

InitServer ==
  /\ side = "server"
  /\ srvEffect \in ServerEffects
  /\ srvInput = NoEffect
  /\ srvReport = NoReport
  /\ srvOp = "none"
  /\ srvRuns = 0
  /\ srvScorings = <<>>

\* POST /api/constitution/validate: score the effect, leave it as it is.  The
\* route may be called again for the same effect.
ValidateCompliance ==
  /\ side = "server"
  /\ Len(srvScorings) < 2
  /\ \E compliance \in {validateCompliance(srvEffect)} :
       /\ srvReport' = compliance
       /\ srvScorings' = Append(srvScorings, [effect |-> srvEffect, compliance |-> compliance])
  /\ srvOp' = "validate"
  /\ UNCHANGED <<side, auxVars, srvEffect, srvInput, srvRuns, cliVars, routeVars>>

\* constitutionValidator.validateAndEnforce(effect), on the held effect.
ValidateAndEnforce ==
  /\ side = "server"
  /\ srvRuns < MaxRuns
  /\ srvInput' = srvEffect
  /\ srvReport' = validateCompliance(srvEffect)
  /\ srvEffect' = validateAndEnforce(srvEffect)
  /\ srvOp' = "enforce"
  /\ srvRuns' = srvRuns + 1
  /\ srvScorings' = <<>>
  /\ UNCHANGED <<side, auxVars, cliVars, routeVars>>


-----------------------------------------------------------------------------
(* Client: ConstitutionEngine.  dna.emotionalProfile values are kept in    *)
(* percent; partial scores are kept times 12.                              *)

validator(id, effect) ==
  CASE id = 1 -> effect.metadata.fps >= 60 /\ effect.metadata.renderTime < 200
    [] id = 2 -> Includes(effect.code, "autoCalibrate") /\ Includes(effect.code, "adaptiveParameters")
    [] id = 3 -> Includes(effect.code, "detectPlatform") /\ Includes(effect.code, "crossBrowser")
    [] id = 4 -> Includes(effect.code, "oneClick") /\ Includes(effect.code, "livePreview")
    [] id = 5 -> Includes(effect.code, "wowFactor") /\ Includes(effect.code, "advancedPhysics")
    [] id = 6 -> Includes(effect.code, "immersive") /\ effect.dna.energy > 70
    [] id = 7 -> effect.metadata.constitutionScore >= 95

\* calculatePartialScore, times 12
calculatePartialScore(effect, id) ==
  CASE id = 1 -> LET fpsScore    == Min(100 * 12, effect.metadata.fps * 20)
                     renderScore == Min(100 * 12, (200 - effect.metadata.renderTime) * 6)
                 IN  (fpsScore + renderScore) \div 2
    [] id = 2 -> IF Includes(effect.code, "autoCalibrate") THEN 50 * 12 ELSE 0
    [] id = 3 -> IF Includes(effect.code, "detectPlatform") THEN 50 * 12 ELSE 0
    [] id = 4 -> IF Includes(effect.code, "oneClick") THEN 50 * 12 ELSE 0
    [] id = 5 -> effect.dna.elegance * 12
    [] id = 6 -> effect.dna.energy * 12
    [] id = 7 -> effect.metadata.constitutionScore * 12

\* score of one article in validateCompliance, times 12
cliArticleScore(effect, id) ==
  IF validator(id, effect) THEN 100 * 12 ELSE calculatePartialScore(effect, id)

RECURSIVE cliTotalScore(_, _)
cliTotalScore(effect, n) ==
  IF n = 0 THEN 0 ELSE cliTotalScore(effect, n - 1) + cliArticleScore(effect, n)

cliValidateCompliance(effect) ==
  [totalScore |-> Round(cliTotalScore(effect, 7), 12 * 7),
   articles   |-> [id \in 1..7 |-> [compliant |-> validator(id, effect),
                                    score12   |-> cliArticleScore(effect, id)]]]

enforcePerformanceAbsolue(effect) ==
  LET c1 == IF ~Includes(effect.code, "performanceMonitor")
               /\ Includes(effect.code, "this.init();")
            THEN InsertAfterAnchor(effect.code, "cliPerfMonitor")
            ELSE effect.code
      c2 == IF ~Includes(c1, "optimizeForNextFrame")
            THEN AppendBlock(c1, "cliOptimize")
            ELSE c1
  IN  [effect EXCEPT !.code = c2, !.metadata.fps = Max(@, 60)]

\* if (!code.includes(marker)) code += block
AppendUnless(effect, marker, block) ==
  IF ~Includes(effect.code, marker)
  THEN [effect EXCEPT !.code = AppendBlock(@, block)]
  ELSE effect

enforceIntelligenceAdaptative(effect) == AppendUnless(effect, "autoCalibrate", "cliAutoCalibrate")
enforcePolyvalenceUniverselle(effect) == AppendUnless(effect, "detectPlatform", "cliDetectPlatform")
enforceExperienceParfaite(effect) == AppendUnless(effect, "oneClick", "cliOneClick")
enforceImpactVisuel(effect) == AppendUnless(effect, "wowFactor", "cliWowFactor")
enforceEcosystemeAddictif(effect) == AppendUnless(effect, "immersive", "cliImmersive")

enforceDominationConcurrentielle(effect) ==
  [effect EXCEPT !.code = AppendBlock(@, "cliDomination"),
                 !.metadata.constitutionScore = Max(@, 95)]

enforcer(id, effect) ==
  CASE id = 1 -> enforcePerformanceAbsolue(effect)
    [] id = 2 -> enforceIntelligenceAdaptative(effect)
    [] id = 3 -> enforcePolyvalenceUniverselle(effect)
    [] id = 4 -> enforceExperienceParfaite(effect)
    [] id = 5 -> enforceImpactVisuel(effect)
    [] id = 6 -> enforceEcosystemeAddictif(effect)
    [] id = 7 -> enforceDominationConcurrentielle(effect)

\* the loop of enforceCompliance over the first n articles
RECURSIVE applyArticles(_, _)
applyArticles(effect, n) ==
  IF n = 0 THEN effect
  ELSE LET e == CHOOSE x \in {applyArticles(effect, n - 1)} : TRUE
       IN  IF ~validator(n, e) THEN enforcer(n, e) ELSE e

enforceCompliance(effect) ==
  LET enforcedEffect == CHOOSE x \in {applyArticles(effect, 7)} : TRUE
      compliance     == cliValidateCompliance(enforcedEffect)
  IN  [enforcedEffect EXCEPT !.metadata.constitutionScore = compliance.totalScore]

ClientCodes == {MkCode("empty"), MkCode("plain"), MkCode("particle"),
                MkCode("particleSetup"), MkCode("full")}
ClientFps == {30, 60, 120}
ClientRenderTimes == {3, 20, 250}
ClientMemory == {74, 300}
ClientScores == {0, 97}
EnergyPcts == {50, 80}
ElegancePcts == {0, 100}

ClientEffects ==
  {[code |-> c,
    metadata |-> [renderTime |-> rt, memoryUsage |-> mem, fps |-> fps, constitutionScore |-> cs],
    dna |-> [energy |-> en, elegance |-> el]] :
     c \in ClientCodes, rt \in ClientRenderTimes, mem \in ClientMemory, fps \in ClientFps,
     cs \in ClientScores, en \in EnergyPcts, el \in ElegancePcts}

ClientIdle ==
  /\ cliEffect = NoEffect /\ cliInput = NoEffect /\ cliReport = NoReport /\ cliRuns = 0
  /\ cliScorings = <<>>

InitClient ==
  /\ side = "client"
  /\ cliEffect \in ClientEffects
  /\ cliInput = NoEffect
  /\ cliReport = NoReport
  /\ cliRuns = 0
  /\ cliScorings = <<>>

\* constitutionEngine.enforceCompliance(effect), on the held effect.
EnforceCompliance ==
  /\ side = "client"
  /\ cliRuns < MaxRuns
  /\ cliInput' = cliEffect
  /\ \E enforcedEffect \in {applyArticles(cliEffect, 7)} :
       cliReport' = cliValidateCompliance(enforcedEffect)
  /\ cliEffect' = enforceCompliance(cliEffect)
  /\ cliRuns' = cliRuns + 1
  /\ cliScorings' = <<>>
  /\ UNCHANGED <<side, auxVars, srvVars, routeVars>>

\* constitutionEngine.validateCompliance(effect) on the held effect, for display;
\* it may be called again.
ValidateComplianceForDisplay ==
  /\ side = "client"
  /\ Len(cliScorings) < 2
  /\ \E compliance \in {cliValidateCompliance(cliEffect)} :
       cliScorings' = Append(cliScorings, [effect |-> cliEffect, compliance |-> compliance])
  /\ UNCHANGED <<side, auxVars, srvVars, routeVars, cliEffect, cliInput, cliReport, cliRuns>>

-----------------------------------------------------------------------------
(* Server: storage.ts and the generate route of routes.ts *)

\* {...a, ...b}: the fields of both records, b's value where both have one
Merge(a, b) ==
  [f \in (DOMAIN a) \cup (DOMAIN b) |-> IF f \in DOMAIN b THEN b[f] ELSE a[f]]

\* randomUUID(): the id the next call returns
randomUUID == uuids + 1

sampleEffect ==
  Merge(MkEffect(MkCode("plain"), Null, Null, 12, 256, 60, TRUE, 98), [id |-> 1])

\* MemStorage.createEffect: the record stored under the fresh id
createEffect(insertEffect, id) == Merge(insertEffect, [id |-> id])

\* MemStorage.createAiSession: the record stored under the fresh id
createAiSession(insertSession, id) ==
  Merge(insertSession, [id |-> id, status |-> insertSession.status, completedAt |-> "null"])

\* MemStorage.updateAiSession throws 'AI Session not found'
updateAiSessionThrows(id) == id \notin DOMAIN aiSessions

\* MemStorage.updateAiSession: the session map after the update
updateAiSession(id, updates) ==
  [aiSessions EXCEPT ![id] = Merge(@, updates)]

\* What effectGenerator.generateEffect(request) may resolve with.
GeneratedEffects ==
  {MkEffect(MkCode("particle"), Null, Null, 17, 380, 30, FALSE, 0),
   MkEffect(MkCode("plain"), MkCode("transform"), Null, 5, 64, 60, FALSE, 0),
   MkEffect(MkCode("full"), MkCode("transform"), MkCode("aeExpr"), 5, 64, 60, TRUE, 98)}

NewRequest ==
  [pc |-> "idle", enableConstitution |-> FALSE, sessionId |-> 0, session |-> 0,
   generated |-> NoEffect, validatedEffect |-> NoEffect, effect |-> NoEffect,
   savedEffect |-> 0, failed |-> FALSE]

StoreIdle ==
  /\ files = <<>> /\ callers = <<>> /\ applied = <<>>

EngineIdle ==
  /\ isInitialized = FALSE /\ neuralModel = "null" /\ startup = "start"
  /\ initCalls = <<>> /\ content = <<>> /\ response = [kind |-> "none"]

TemplatesIdle ==
  /\ tplDna = [kind |-> "none"] /\ tplType = "" /\ tplResult = [pc |-> "none"]

AuxIdle == StoreIdle /\ EngineIdle /\ TemplatesIdle

RoutesIdle ==
  /\ effects = <<>> /\ aiSessions = <<>> /\ uuids = 0 /\ requests = <<>>

InitRoutes ==
  /\ ServerIdle /\ ClientIdle /\ AuxIdle
  /\ side = "routes"
  /\ effects = (1 :> sampleEffect)
  /\ aiSessions = <<>>
  /\ uuids = 1
  /\ requests = [r \in 1..MaxRequests |-> NewRequest]

\* POST /api/effects/generate with a body the schema rejects: 400, nothing else.
PostGenerateInvalid(r) ==
  /\ side = "routes"
  /\ requests[r].pc = "idle"
  /\ requests' = [requests EXCEPT ![r].pc = "invalid"]
  /\ UNCHANGED <<side, auxVars, srvVars, cliVars, effects, aiSessions, uuids>>

\* POST /api/effects/generate, up to the await of createAiSession:
\* sessionId = randomUUID(), then createAiSession draws the session's own id.
PostGenerate(r, enableConstitution) ==
  /\ side = "routes"
  /\ requests[r].pc = "idle"
  /\ LET sessionId == randomUUID
          id        == randomUUID + 1
      IN  /\ aiSessions' = aiSessions @@
                (id :> createAiSession([prompt |-> "prompt", status |-> "processing"], id))
          /\ uuids' = uuids + 2
          /\ requests' = [requests EXCEPT ![r].pc = "created",
                                          ![r].enableConstitution = enableConstitution,
                                          ![r].sessionId = sessionId,
                                          ![r].session = id]
  /\ UNCHANGED <<side, auxVars, srvVars, cliVars, effects>>

\* The handler resumes: generateEffectAsync(sessionId, data) starts and awaits
\* the generator; the response {sessionId} is sent.
StartGeneration(r) ==
  /\ side = "routes"
  /\ requests[r].pc = "created"
  /\ requests' = [requests EXCEPT ![r].pc = "generating"]
  /\ UNCHANGED <<side, auxVars, srvVars, cliVars, effects, aiSessions, uuids>>

\* The catch block of generateEffectAsync: the error update of the session;
\* when that update throws, the run ends rejected (logged by console.error).
CatchUpdate(r, sessions) ==
  IF r.sessionId \in DOMAIN sessions
  THEN [sessions EXCEPT ![r.sessionId] =
          Merge(@, [status |-> "error", response |-> "message", processingTime |-> "elapsed"])]
  ELSE sessions

\* effectGenerator.generateEffect rejects: the catch block runs.
GenerationFails(r) ==
  /\ side = "routes"
  /\ requests[r].pc = "generating"
  /\ aiSessions' = CatchUpdate(requests[r], aiSessions)
  /\ requests' = [requests EXCEPT ![r].pc = "done", ![r].failed = TRUE]
  /\ UNCHANGED <<side, auxVars, srvVars, cliVars, effects, uuids>>

\* storage.createEffect(effect) as called by generateEffectAsync
SaveEffect(r, effect) ==
  /\ effects' = effects @@ (randomUUID :> createEffect(effect, randomUUID))
  /\ uuids' = uuids + 1
  /\ requests' = [requests EXCEPT ![r].pc = "saved",
                                  ![r].generated = IF @ = NoEffect THEN effect ELSE @,
                                  ![r].effect = effect,
                                  ![r].savedEffect = randomUUID]

\* effectGenerator.generateEffect resolves with an effect: with
\* enableConstitution the run awaits validateAndEnforce, without it the run
\* goes on to createEffect.
GenerationSucceeds(r, effect) ==
  /\ side = "routes"
  /\ requests[r].pc = "generating"
  /\ IF requests[r].enableConstitution
     THEN /\ requests' = [requests EXCEPT ![r].pc = "validating",
                                          ![r].generated = effect,
                                          ![r].effect = effect,
                                          ![r].validatedEffect = validateAndEnforce(effect)]
          /\ UNCHANGED <<effects, uuids>>
     ELSE SaveEffect(r, effect)
  /\ UNCHANGED <<side, auxVars, srvVars, cliVars, aiSessions>>

\* validateAndEnforce has resolved: score and flags are copied onto effect,
\* which is then handed to createEffect.
CopyCompliance(r) ==
  /\ side = "routes"
  /\ requests[r].pc = "validating"
  /\ LET validatedEffect == requests[r].validatedEffect
          effect == [requests[r].effect EXCEPT
                       !.constitutionScore     = validatedEffect.constitutionScore,
                       !.performanceCompliant  = validatedEffect.performanceCompliant,
                       !.intelligenceAdaptive  = validatedEffect.intelligenceAdaptive,
                       !.universalCompatible   = validatedEffect.universalCompatible,
                       !.perfectExperience     = validatedEffect.perfectExperience,
                       !.visualImpact          = validatedEffect.visualImpact,
                       !.addictiveEcosystem    = validatedEffect.addictiveEcosystem,
                       !.competitiveDomination = validatedEffect.competitiveDomination]
      IN  SaveEffect(r, effect)
  /\ UNCHANGED <<side, auxVars, srvVars, cliVars, aiSessions>>

\* createEffect has resolved: the completion update of the session; when it
\* throws, the catch block runs.
CompleteSession(r) ==
  /\ side = "routes"
  /\ requests[r].pc = "saved"
  /\ IF updateAiSessionThrows(requests[r].sessionId)
     THEN /\ aiSessions' = CatchUpdate(requests[r], aiSessions)
          /\ requests' = [requests EXCEPT ![r].pc = "done", ![r].failed = TRUE]
     ELSE /\ aiSessions' = updateAiSession(requests[r].sessionId,
                              [response |-> "savedEffect",
                               effectId |-> requests[r].savedEffect,
                               status |-> "completed",
                               processingTime |-> "elapsed",
                               constitutionScore |-> requests[r].effect.constitutionScore,
                               completedAt |-> "now"])
          /\ requests' = [requests EXCEPT ![r].pc = "done"]
  /\ UNCHANGED <<side, auxVars, srvVars, cliVars, effects, uuids>>

NextRoutes ==
  \E r \in 1..MaxRequests :
    \/ PostGenerateInvalid(r)
    \/ \E enableConstitution \in BOOLEAN : PostGenerate(r, enableConstitution)
    \/ StartGeneration(r)
    \/ GenerationFails(r)
    \/ \E effect \in GeneratedEffects : GenerationSucceeds(r, effect)
    \/ CopyCompliance(r)
    \/ CompleteSession(r)

SpecRoutes == InitRoutes /\ [][NextRoutes]_vars

-----------------------------------------------------------------------------
(* Server: concurrent callers of MemStorage's update methods.  Each method  *)
(* is an async function without an await in its body: a call reads, merges *)
(* and writes before any other caller's code runs; the caller's own code   *)
(* after `await storage.update...` runs in a later turn.                   *)

\* Number of concurrent callers.  Each makes two successive update calls, as
\* parseFileAsync does (status 'parsing', then 'parsed' or 'error').
MaxCallers == 2

\* MemStorage.createFile: the record stored under the fresh id
createFile(insertFile, id) ==
  Merge(insertFile,
        [id |-> id,
         status |-> IF "status" \in DOMAIN insertFile THEN insertFile.status ELSE "uploaded",
         createdAt |-> "created", updatedAt |-> "created"])

updateEffectThrows(id) == id \notin DOMAIN effects
updateFileThrows(id) == id \notin DOMAIN files

\* An update that keeps only its own fields: the existing record is dropped.
overwriteFile(id, updates) ==
  [files EXCEPT ![id] = Merge([id |-> id], Merge(updates, [updatedAt |-> "now"]))]

\* MemStorage.updateEffect: the effect map after the update
updateEffect(id, updates) ==
  [effects EXCEPT ![id] = Merge(Merge(@, updates), [updatedAt |-> "now"])]

\* MemStorage.updateFile: the file map after the update
updateFile(id, updates) ==
  [files EXCEPT ![id] = Merge(Merge(@, updates), [updatedAt |-> "now"])]

storedSession == createAiSession([prompt |-> "prompt", status |-> "processing"], 2)
storedFile ==
  createFile([originalName |-> "a.js", filename |-> "3_a.js", mimetype |-> "text/javascript",
              size |-> 10, status |-> "uploaded"], 3)

\* Partial records handed to the update methods.
EffectUpdates ==
  {[name |-> "Glow", category |-> "glow"], [category |-> "particles"]}
FileUpdates ==
  {[status |-> "parsing"],
   [status |-> "parsed", parsedContent |-> "content"],
   [status |-> "error", errorMessage |-> "message"]}
SessionUpdates ==
  {[status |-> "completed", response |-> "savedEffect", effectId |-> 1,
    processingTime |-> "elapsed", constitutionScore |-> 98, completedAt |-> "now"],
   [status |-> "error", response |-> "message", processingTime |-> "elapsed"]}

\* The ids update calls are made with: the stored record's, and one not stored.
EffectIds == {1, 0}
FileIds == {3, 0}
SessionIds == {2, 0}

InitStore ==
  /\ ServerIdle /\ ClientIdle /\ EngineIdle /\ TemplatesIdle
  /\ side = "store"
  /\ effects = (1 :> sampleEffect)
  /\ aiSessions = (2 :> storedSession)
  /\ files = (3 :> storedFile)
  /\ uuids = 3
  /\ requests = <<>>
  /\ callers = [c \in 1..MaxCallers |-> [pc |-> "ready", calls |-> 0]]
  /\ applied = [effects |-> <<>>, files |-> <<>>, aiSessions |-> <<>>]

CanCall(c) ==
  /\ side = "store"
  /\ callers[c].pc = "ready"
  /\ callers[c].calls < 2

\* The caller's position after the call: awaiting the resolved promise, or in
\* its catch block with the rejection.
AfterCall(c, threw) ==
  [callers EXCEPT ![c].pc = IF threw THEN "rejected" ELSE "awaiting", ![c].calls = @ + 1]

\* await storage.updateEffect(id, updates): the method body, run in one turn.
CallUpdateEffect(c, id, updates) ==
  /\ CanCall(c)
  /\ IF updateEffectThrows(id)
     THEN UNCHANGED <<effects, applied>>
     ELSE /\ effects' = updateEffect(id, updates)
          /\ applied' = [applied EXCEPT !.effects = Append(@, updates)]
  /\ callers' = AfterCall(c, updateEffectThrows(id))
  /\ UNCHANGED <<side, srvVars, cliVars, engineVars, tplVars, aiSessions, files, uuids, requests>>

\* await storage.updateFile(id, updates)
CallUpdateFile(c, id, updates) ==
  /\ CanCall(c)
  /\ IF updateFileThrows(id)
     THEN UNCHANGED <<files, applied>>
     ELSE /\ files' = updateFile(id, updates)
          /\ applied' = [applied EXCEPT !.files = Append(@, updates)]
  /\ callers' = AfterCall(c, updateFileThrows(id))
  /\ UNCHANGED <<side, srvVars, cliVars, engineVars, tplVars, effects, aiSessions, uuids, requests>>

\* await storage.updateAiSession(id, updates)
CallUpdateAiSession(c, id, updates) ==
  /\ CanCall(c)
  /\ IF updateAiSessionThrows(id)
     THEN UNCHANGED <<aiSessions, applied>>
     ELSE /\ aiSessions' = updateAiSession(id, updates)
          /\ applied' = [applied EXCEPT !.aiSessions = Append(@, updates)]
  /\ callers' = AfterCall(c, updateAiSessionThrows(id))
  /\ UNCHANGED <<side, srvVars, cliVars, engineVars, tplVars, effects, files, uuids, requests>>

\* The caller's code after the await (or its catch block) runs, in a later turn.
Resume(c) ==
  /\ side = "store"
  /\ callers[c].pc \in {"awaiting", "rejected"}
  /\ callers' = [callers EXCEPT ![c].pc = "ready"]
  /\ UNCHANGED <<side, srvVars, cliVars, engineVars, tplVars, routeVars, files, applied>>

NextStore ==
  \E c \in 1..MaxCallers :
    \/ \E id \in EffectIds, updates \in EffectUpdates : CallUpdateEffect(c, id, updates)
    \/ \E id \in FileIds, updates \in FileUpdates : CallUpdateFile(c, id, updates)
    \/ \E id \in SessionIds, updates \in SessionUpdates : CallUpdateAiSession(c, id, updates)
    \/ Resume(c)

SpecStore == InitStore /\ [][NextStore]_vars

(***************************************************************************)
(* The store's records and their ids: create and update calls, one after   *)
(* the other (each method body runs in one turn).                          *)
(***************************************************************************)

\* Number of create calls explored.
MaxCreates == 2

\* Payloads of the create calls: as typed, and carrying an id of the caller.
InsertEffects ==
  LET effect == MkEffect(MkCode("plain"), Null, Null, 5, 64, 60, FALSE, 0)
  IN  {effect, Merge(effect, [id |-> 0])}
InsertFiles ==
  LET file == [originalName |-> "a.txt", filename |-> "t_a.txt", mimetype |-> "text/plain",
               size |-> 10, status |-> "uploaded"]
  IN  {file, Merge(file, [id |-> 0])}
InsertSessions ==
  LET session == [prompt |-> "prompt", status |-> "processing"]
  IN  {session, Merge(session, [id |-> 0])}

\* Partial records of the update calls: fields of the record alone, and an
\* object that also has an id property.
IdUpdates == {[status |-> "error"], [status |-> "completed", id |-> 0]}

InitRecords ==
  /\ ServerIdle /\ ClientIdle /\ EngineIdle /\ TemplatesIdle
  /\ side = "records"
  /\ effects = (1 :> sampleEffect)
  /\ aiSessions = <<>>
  /\ files = <<>>
  /\ uuids = 1
  /\ requests = <<>>
  /\ callers = <<>>
  /\ applied = <<>>

CanCreate ==
  /\ side = "records"
  /\ uuids < 1 + MaxCreates

\* storage.createEffect(insertEffect)
CreateEffect(insertEffect) ==
  /\ CanCreate
  /\ effects' = effects @@ (randomUUID :> createEffect(insertEffect, randomUUID))
  /\ uuids' = randomUUID
  /\ UNCHANGED <<side, srvVars, cliVars, engineVars, tplVars, storeVars, aiSessions, requests>>

\* storage.createFile(insertFile)
CreateFile(insertFile) ==
  /\ CanCreate
  /\ files' = files @@ (randomUUID :> createFile(insertFile, randomUUID))
  /\ uuids' = randomUUID
  /\ UNCHANGED <<side, srvVars, cliVars, engineVars, tplVars, effects, aiSessions, requests,
                 callers, applied>>

\* storage.createAiSession(insertSession)
CreateAiSession(insertSession) ==
  /\ CanCreate
  /\ aiSessions' = aiSessions @@ (randomUUID :> createAiSession(insertSession, randomUUID))
  /\ uuids' = randomUUID
  /\ UNCHANGED <<side, srvVars, cliVars, engineVars, tplVars, storeVars, effects, requests>>

\* storage.updateEffect(id, updates) for a stored id
UpdateEffect(id, updates) ==
  /\ side = "records"
  /\ ~updateEffectThrows(id)
  /\ effects' = updateEffect(id, updates)
  /\ UNCHANGED <<side, srvVars, cliVars, engineVars, tplVars, storeVars, aiSessions, uuids,
                 requests>>

\* storage.updateFile(id, updates) for a stored id
UpdateFile(id, updates) ==
  /\ side = "records"
  /\ ~updateFileThrows(id)
  /\ files' = updateFile(id, updates)
  /\ UNCHANGED <<side, srvVars, cliVars, engineVars, tplVars, routeVars, callers, applied>>

\* storage.updateAiSession(id, updates) for a stored id
UpdateAiSession(id, updates) ==
  /\ side = "records"
  /\ ~updateAiSessionThrows(id)
  /\ aiSessions' = updateAiSession(id, updates)
  /\ UNCHANGED <<side, srvVars, cliVars, engineVars, tplVars, storeVars, effects, uuids,
                 requests>>

NextRecords ==
  \/ \E insertEffect \in InsertEffects : CreateEffect(insertEffect)
  \/ \E insertFile \in InsertFiles : CreateFile(insertFile)
  \/ \E insertSession \in InsertSessions : CreateAiSession(insertSession)
  \/ \E id \in DOMAIN effects, updates \in IdUpdates : UpdateEffect(id, updates)
  \/ \E id \in DOMAIN files, updates \in IdUpdates : UpdateFile(id, updates)
  \/ \E id \in DOMAIN aiSessions, updates \in IdUpdates : UpdateAiSession(id, updates)

SpecRecords == InitRecords /\ [][NextRecords]_vars

(***************************************************************************)
(* File upload, background parsing and deletion (routes.ts).  requests     *)
(* holds one entry per uploaded file: the position of its parseFileAsync   *)
(* call, which gives way to other handlers at each await.                  *)
(***************************************************************************)

\* Number of files uploaded.
MaxUploads == 2

\* Files that pass the upload filter: a text file, and a JSON file whose
\* content is not JSON.
UploadedFiles ==
  {[mimetype |-> "text/plain", wellFormed |-> TRUE],
   [mimetype |-> "application/json", wellFormed |-> FALSE]}

\* fileParser.parseFile(file) throws
parseFileThrows(file) == file.mimetype = "application/json" /\ ~file.wellFormed

\* storage.deleteFile(id), where the file is stored
deleteFile(id) == [key \in (DOMAIN files) \ {id} |-> files[key]]

InitFiles ==
  /\ ServerIdle /\ ClientIdle /\ EngineIdle /\ TemplatesIdle
  /\ side = "files"
  /\ effects = (1 :> sampleEffect)
  /\ aiSessions = <<>>
  /\ files = <<>>
  /\ uuids = 1
  /\ requests = <<>>
  /\ callers = <<>>
  /\ applied = <<>>

\* The parseFileAsync call of entry j moves to position pc.
Goto(j, pc) == requests' = [requests EXCEPT ![j].pc = pc]

\* POST /api/files/upload, one file of the loop: tempId, then createFile.
UploadFile(file) ==
  /\ side = "files"
  /\ Len(requests) < MaxUploads
  /\ LET tempId == randomUUID
         id     == tempId + 1
     IN  /\ files' = files @@ (id :> createFile([originalName |-> "name",
                                                  filename |-> tempId,
                                                  mimetype |-> file.mimetype,
                                                  size |-> 10,
                                                  status |-> "uploaded"], id))
         /\ uuids' = id
         /\ requests' = Append(requests, [pc |-> "start", fileId |-> id, file |-> file])
  /\ UNCHANGED <<side, srvVars, cliVars, engineVars, tplVars, effects, aiSessions,
                 callers, applied>>

\* parseFileAsync: await storage.updateFile(fileId, { status: 'parsing' })
BeginParsing(j) ==
  /\ side = "files"
  /\ requests[j].pc = "start"
  /\ IF updateFileThrows(requests[j].fileId)
     THEN Goto(j, "catch") /\ UNCHANGED files
     ELSE /\ files' = updateFile(requests[j].fileId, [status |-> "parsing"])
          /\ Goto(j, "parse")
  /\ UNCHANGED <<side, srvVars, cliVars, engineVars, tplVars, effects, aiSessions, uuids,
                 callers, applied>>

\* parseFileAsync: await fileParser.parseFile(file)
ParseFile(j) ==
  /\ side = "files"
  /\ requests[j].pc = "parse"
  /\ IF parseFileThrows(requests[j].file) THEN Goto(j, "catch") ELSE Goto(j, "store")
  /\ UNCHANGED <<side, srvVars, cliVars, engineVars, tplVars, storeVars, effects, aiSessions,
                 uuids>>

\* parseFileAsync: await storage.updateFile(fileId, { status: 'parsed', parsedContent })
StoreParsed(j) ==
  /\ side = "files"
  /\ requests[j].pc = "store"
  /\ IF updateFileThrows(requests[j].fileId)
     THEN Goto(j, "catch") /\ UNCHANGED files
     ELSE /\ files' = updateFile(requests[j].fileId,
                                 [status |-> "parsed", parsedContent |-> "text"])
          /\ Goto(j, "done")
  /\ UNCHANGED <<side, srvVars, cliVars, engineVars, tplVars, effects, aiSessions, uuids,
                 callers, applied>>

\* The catch block left without an update of the record.
CatchSkipsUpdate(j) ==
  /\ side = "files"
  /\ requests[j].pc = "catch"
  /\ Goto(j, "done")
  /\ UNCHANGED <<side, srvVars, cliVars, engineVars, tplVars, storeVars, effects, aiSessions,
                 uuids>>

\* parseFileAsync, catch: await storage.updateFile(fileId, { status: 'error', errorMessage });
\* when this throws too, the rejection goes to console.error.
CatchError(j) ==
  /\ side = "files"
  /\ requests[j].pc = "catch"
  /\ IF updateFileThrows(requests[j].fileId)
     THEN Goto(j, "rejected") /\ UNCHANGED files
     ELSE /\ files' = updateFile(requests[j].fileId,
                                 [status |-> "error", errorMessage |-> "Failed to parse file"])
          /\ Goto(j, "done")
  /\ UNCHANGED <<side, srvVars, cliVars, engineVars, tplVars, effects, aiSessions, uuids,
                 callers, applied>>

\* DELETE /api/files/:id for a stored file
DeleteFile(id) ==
  /\ side = "files"
  /\ id \in DOMAIN files
  /\ files' = deleteFile(id)
  /\ UNCHANGED <<side, srvVars, cliVars, engineVars, tplVars, routeVars, callers, applied>>

\* One step of some parseFileAsync call.
ParseStep ==
  \E j \in DOMAIN requests :
    BeginParsing(j) \/ ParseFile(j) \/ StoreParsed(j) \/ CatchError(j)

NextFiles ==
  \/ \E file \in UploadedFiles : UploadFile(file)
  \/ \E j \in DOMAIN requests : BeginParsing(j)
  \/ \E j \in DOMAIN requests : ParseFile(j)
  \/ \E j \in DOMAIN requests : StoreParsed(j)
  \/ \E j \in DOMAIN requests : CatchError(j)
  \/ \E id \in DOMAIN files : DeleteFile(id)

SpecFiles == InitFiles /\ [][NextFiles]_vars

\* The event loop runs every continuation that is queued: a parseFileAsync
\* call that can take a step takes one.
SpecFilesLive == SpecFiles /\ WF_vars(ParseStep)

(***************************************************************************)
(* The AI engine of the server (services/ai-engine.ts) behind its routes.  *)
(*                                                                         *)
(* A content string is kept as the sequence of its whitespace-separated    *)
(* words; tokenizeContent lower-cases each word, turns its punctuation     *)
(* into blanks, splits again and drops what is 2 characters or shorter.    *)
(* Fractions are kept exactly, as numerator n over denominator d > 0.      *)
(***************************************************************************)

\* Number of POST /api/ai/initialize requests explored (they may overlap).
MaxInitCalls == 2
\* Number of words a content may add to its opening words.
MaxWords == 3

NoResponse == [kind |-> "none"]

\* loadVocabulary: the effect-specific vocabulary
effectKeywords ==
  {"particle", "explosion", "fade", "glow", "blur", "transition",
   "animation", "rotate", "scale", "translate", "color", "gradient",
   "shadow", "light", "dark", "bright", "smooth", "rough",
   "fast", "slow", "spiral", "wave", "pulse", "bounce",
   "plasma", "fire", "water", "earth", "air", "energy",
   "magic", "cosmic", "digital", "neon", "chrome", "glass"}

\* this.neuralModel.vocabulary of a model object: empty until loadVocabulary
vocabularyOf(model) == IF model = "loaded" THEN effectKeywords ELSE {}

energyWords == {"fast", "explosive", "dynamic", "powerful", "intense"}
complexityWords == {"intricate", "detailed", "layered", "sophisticated"}
eleganceWords == {"smooth", "graceful", "refined", "subtle", "clean"}
heavyWords == {"particle", "complex", "detailed", "3d"}
lightWords == {"simple", "basic", "minimal", "clean"}
constitutionKeywords ==
  {"performance", "fast", "smooth", "60fps", "optimized",
   "adaptive", "intelligent", "responsive", "cross-platform",
   "perfect", "flawless", "seamless", "visual", "stunning",
   "wow", "spectacular", "immersive", "engaging", "addictive",
   "superior", "best", "ultimate", "revolutionary"}

\* The words contents are made of, and what toLowerCase, the replacement of
\* [^\w\s] by a blank, the split and the length filter make of each.
RawWords == {"Glow!", "FAST", "smooth", "3d", "cross-platform", "detailed", "neon"}
OpeningWords == {<<>>, <<"wave", "fire", "particle", "pulse">>}

wordTokens(word) ==
  CASE word = "Glow!" -> <<"glow">>
    [] word = "FAST" -> <<"fast">>
    [] word = "3d" -> <<>>
    [] word = "cross-platform" -> <<"cross", "platform">>
    [] OTHER -> <<word>>

RECURSIVE tokenizeContent(_)
tokenizeContent(text) ==
  IF text = <<>> THEN <<>>
  ELSE wordTokens(Head(text)) \o tokenizeContent(Tail(text))

RECURSIVE wordsUpTo(_)
wordsUpTo(n) ==
  IF n = 0 THEN {<<>>}
  ELSE LET shorter == wordsUpTo(n - 1)
       IN  shorter \cup {Append(s, w) : s \in {x \in shorter : Len(x) = n - 1}, w \in RawWords}

Contents == {opening \o words : opening \in OpeningWords, words \in wordsUpTo(MaxWords)}

Frac(n, d) == [n |-> n, d |-> d]

matches(tokens, words) == Cardinality({i \in 1..Len(tokens) : tokens[i] \in words})

calculateWordScore(tokens, words) ==
  Frac(matches(tokens, words), Max(Len(tokens), 1))

\* Math.min(1, f)
minOne(f) == IF f.n >= f.d THEN Frac(1, 1) ELSE f

\* conceptFreq.set(token, (conceptFreq.get(token) || 0) + 1): a Map keeps its
\* keys in the order they were first set.
setFreq(conceptFreq, token) ==
  IF \E i \in 1..Len(conceptFreq) : conceptFreq[i].concept = token
  THEN [i \in 1..Len(conceptFreq) |->
          IF conceptFreq[i].concept = token
          THEN [concept |-> token, count |-> conceptFreq[i].count + 1]
          ELSE conceptFreq[i]]
  ELSE Append(conceptFreq, [concept |-> token, count |-> 1])

RECURSIVE countConcepts(_, _, _)
countConcepts(tokens, vocabulary, n) ==
  IF n = 0 THEN <<>>
  ELSE LET conceptFreq == CHOOSE x \in {countConcepts(tokens, vocabulary, n - 1)} : TRUE
       IN  IF tokens[n] \in vocabulary THEN setFreq(conceptFreq, tokens[n]) ELSE conceptFreq

\* A sort step that puts an entry before the entries of the same count.
insertBeforeEqual(sorted, entry) ==
  LET k == Cardinality({i \in 1..Len(sorted) : sorted[i].count > entry.count})
  IN  SubSeq(sorted, 1, k) \o <<entry>> \o SubSeq(sorted, k + 1, Len(sorted))

\* One step of the sort by (a, b) => b[1] - a[1]: Array.prototype.sort is
\* stable, so an entry goes after the entries whose count is not smaller.
insertEntry(sorted, entry) ==
  LET k == Cardinality({i \in 1..Len(sorted) : sorted[i].count >= entry.count})
  IN  SubSeq(sorted, 1, k) \o <<entry>> \o SubSeq(sorted, k + 1, Len(sorted))

RECURSIVE sortByCount(_, _)
sortByCount(entries, n) ==
  IF n = 0 THEN <<>>
  ELSE LET sorted == CHOOSE x \in {sortByCount(entries, n - 1)} : TRUE
       IN  insertEntry(sorted, entries[n])

extractConcepts(tokens, vocabulary) ==
  LET entries == CHOOSE x \in {countConcepts(tokens, vocabulary, Len(tokens))} : TRUE
      sortedConcepts == CHOOSE x \in {sortByCount(entries, Len(entries))} : TRUE
  IN  [i \in 1..Min(5, Len(sortedConcepts)) |-> sortedConcepts[i].concept]

analyzeEmotionalProfile(tokens) ==
  [energy |-> minOne(calculateWordScore(tokens, energyWords)),
   complexity |-> minOne(calculateWordScore(tokens, complexityWords)),
   elegance |-> minOne(calculateWordScore(tokens, eleganceWords))]

\* Math.max(30, 60 - complexity * 30) and Math.max(64, 256 + complexity * 256)
\* with complexity = (heavy - light) / max(length, 1)
analyzeTechnicalRequirements(tokens) ==
  LET length == Max(Len(tokens), 1)
      complexity == matches(tokens, heavyWords) - matches(tokens, lightWords)
  IN  [performance |-> IF 60 * length - 30 * complexity >= 30 * length
                       THEN Frac(60 * length - 30 * complexity, length)
                       ELSE Frac(30, 1),
       memory |-> IF 256 * length + 256 * complexity >= 64 * length
                  THEN Frac(256 * length + 256 * complexity, length)
                  ELSE Frac(64, 1),
       compatibility |-> <<"web", "mobile", "desktop">>]

\* The confidence without the halving and the cap: coverage + conceptStrength
calculateConfidenceUncapped(tokens, concepts, vocabulary) ==
  LET length == Max(Len(tokens), 1)
  IN  Frac(5 * matches(tokens, vocabulary) + Len(concepts) * length, 5 * length)

\* Math.min(1, (coverage + conceptStrength) / 2) with coverage =
\* vocabularyMatches / max(length, 1) and conceptStrength = concepts.length / 5
calculateConfidence(tokens, concepts, vocabulary) ==
  LET length == Max(Len(tokens), 1)
  IN  minOne(Frac(5 * matches(tokens, vocabulary) + Len(concepts) * length, 10 * length))

checkConstitutionKeywords(tokens) == matches(tokens, constitutionKeywords) >= 2

Raised(message) == [kind |-> "error", message |-> message]

\* analyzeContent(content) on an engine with the given fields: the EffectDNA,
\* or the Error it throws.  With no model object, this.neuralModel.vocabulary
\* is a TypeError inside the try as soon as there is a token to look up.
analyzeWith(initialized, model, text) ==
  LET tokens == CHOOSE x \in {tokenizeContent(text)} : TRUE
  IN  IF ~initialized THEN Raised("AI Engine not initialized")
      ELSE IF model = "null" /\ tokens # <<>> THEN Raised("Content analysis failed")
      ELSE LET concepts == CHOOSE x \in {extractConcepts(tokens, vocabularyOf(model))} : TRUE
           IN  [kind |-> "dna",
                primaryConcepts |-> concepts,
                emotionalProfile |-> analyzeEmotionalProfile(tokens),
                technicalRequirements |-> analyzeTechnicalRequirements(tokens),
                confidenceScore |-> calculateConfidence(tokens, concepts, vocabularyOf(model)),
                constitutionCompliance |-> checkConstitutionKeywords(tokens)]

analyzeContent(text) == analyzeWith(isInitialized, neuralModel, text)

\* The contents the requests to the running server carry: none, one without
\* any token, and some with tokens.
RequestContents ==
  {<<>>, <<"3d">>, <<"FAST", "Glow!">>, <<"smooth", "neon", "detailed">>,
   <<"wave", "fire", "particle", "pulse", "Glow!", "neon", "fire">>}

InitEngine ==
  /\ ServerIdle /\ ClientIdle /\ RoutesIdle /\ StoreIdle /\ TemplatesIdle
  /\ side = "engine"
  /\ isInitialized = FALSE
  /\ neuralModel = "null"
  /\ startup = "start"
  /\ initCalls = [c \in 1..MaxInitCalls |-> "idle"]
  /\ content = <<>>
  /\ response = NoResponse

Answer(route, status, body) == [kind |-> "response", route |-> route, status |-> status, body |-> body]

\* registerRoutes: await aiEngine.initialize() up to the wait in loadNeuralModel
RegisterRoutesBegins ==
  /\ side = "engine"
  /\ startup = "start"
  /\ neuralModel' = "created"
  /\ startup' = "initializing"
  /\ UNCHANGED <<side, srvVars, cliVars, routeVars, storeVars, tplVars,
                 isInitialized, initCalls, content, response>>

\* initialize resumes: loadVocabulary, loadEffectPatterns, isInitialized = true;
\* then registerRoutes registers the routes and the server listens.
RegisterRoutesCompletes ==
  /\ side = "engine"
  /\ startup = "initializing"
  /\ neuralModel' = "loaded"
  /\ isInitialized' = TRUE
  /\ startup' = "listening"
  /\ UNCHANGED <<side, srvVars, cliVars, routeVars, storeVars, tplVars,
                 initCalls, content, response>>

\* An initialize without the early return: it makes a new model object even
\* when the engine is initialized.
PostInitializeAnew(c) ==
  /\ side = "engine"
  /\ startup = "listening"
  /\ initCalls[c] = "idle"
  /\ neuralModel' = "created"
  /\ initCalls' = [initCalls EXCEPT ![c] = "loading"]
  /\ UNCHANGED <<side, srvVars, cliVars, routeVars, storeVars, tplVars,
                 isInitialized, startup, content, response>>

\* POST /api/ai/initialize: initialize returns at once when initialized, else
\* makes a new model object and waits in loadNeuralModel.
PostInitialize(c) ==
  /\ side = "engine"
  /\ startup = "listening"
  /\ initCalls[c] = "idle"
  /\ IF isInitialized
     THEN /\ response' = Answer("initialize", 200, "AI Engine initialized")
          /\ UNCHANGED <<neuralModel, initCalls>>
     ELSE /\ neuralModel' = "created"
          /\ initCalls' = [initCalls EXCEPT ![c] = "loading"]
          /\ UNCHANGED response
  /\ UNCHANGED <<side, srvVars, cliVars, routeVars, storeVars, tplVars,
                 isInitialized, startup, content>>

\* The wait of loadNeuralModel is over: loadVocabulary fills the model object
\* the engine holds now, or throws when a shutdown has taken it away.
InitializeResumes(c) ==
  /\ side = "engine"
  /\ initCalls[c] = "loading"
  /\ initCalls' = [initCalls EXCEPT ![c] = "idle"]
  /\ IF neuralModel = "null"
     THEN /\ response' = Answer("initialize", 500, "Failed to initialize AI Engine")
          /\ UNCHANGED <<neuralModel, isInitialized>>
     ELSE /\ neuralModel' = "loaded"
          /\ isInitialized' = TRUE
          /\ response' = Answer("initialize", 200, "AI Engine initialized")
  /\ UNCHANGED <<side, srvVars, cliVars, routeVars, storeVars, tplVars, startup, content>>

\* POST /api/ai/shutdown
PostShutdown ==
  /\ side = "engine"
  /\ startup = "listening"
  /\ neuralModel' = "null"
  /\ isInitialized' = FALSE
  /\ response' = Answer("shutdown", 200, "AI Engine shutdown")
  /\ UNCHANGED <<side, srvVars, cliVars, routeVars, storeVars, tplVars,
                 startup, initCalls, content>>

\* POST /api/ai/analyze: 400 without content, else the analysis or, when it
\* throws, 500 with the message.
PostAnalyze(text) ==
  /\ side = "engine"
  /\ startup = "listening"
  /\ content' = text
  /\ IF text = <<>>
     THEN response' = Answer("analyze", 400, "Content is required")
     ELSE \E analysis \in {analyzeContent(text)} :
            response' = Answer("analyze", IF analysis.kind = "error" THEN 500 ELSE 200, analysis)
  /\ UNCHANGED <<side, srvVars, cliVars, routeVars, storeVars, tplVars,
                 isInitialized, neuralModel, startup, initCalls>>

NextEngine ==
  \/ RegisterRoutesBegins
  \/ RegisterRoutesCompletes
  \/ \E c \in 1..MaxInitCalls : PostInitialize(c)
  \/ \E c \in 1..MaxInitCalls : InitializeResumes(c)
  \/ PostShutdown
  \/ \E text \in RequestContents : PostAnalyze(text)

SpecEngine == InitEngine /\ [][NextEngine]_vars

\* The analysis as a function of the content: the engine is the one of the
\* started server and every content is analysed once.
InitAnalysis ==
  /\ ServerIdle /\ ClientIdle /\ RoutesIdle /\ StoreIdle /\ TemplatesIdle
  /\ side = "analysis"
  /\ isInitialized = TRUE
  /\ neuralModel = "loaded"
  /\ startup = "listening"
  /\ initCalls = [c \in 1..MaxInitCalls |-> "idle"]
  /\ content \in Contents
  /\ response = NoResponse

\* await aiEngine.analyzeContent(content)
AnalyzeContent ==
  /\ side = "analysis"
  /\ response = NoResponse
  /\ response' = analyzeContent(content)
  /\ UNCHANGED <<side, srvVars, cliVars, routeVars, storeVars, tplVars,
                 isInitialized, neuralModel, startup, initCalls, content>>

NextAnalysis == AnalyzeContent

SpecAnalysis == InitAnalysis /\ [][NextAnalysis]_vars

(***************************************************************************)
(* Template lookup and selection: EffectGenerator of the client            *)
(* (lib/effect-generator.ts) and selectEffectTemplate of the server's AI   *)
(* engine.                                                                 *)
(*                                                                         *)
(* A JavaScript number is kept as an integer, or as NaN; performance and   *)
(* the profile values of the DNA are kept in percent, scores times 1000.   *)
(* templates[type] on an object literal finds the literal's own keys and   *)
(* the properties every object inherits from Object.prototype.             *)
(***************************************************************************)

J(v) == [nan |-> FALSE, v |-> v]
NaN == [nan |-> TRUE, v |-> 0]
jsAdd(a, b) == IF a.nan \/ b.nan THEN NaN ELSE J(a.v + b.v)
jsSub(a, b) == IF a.nan \/ b.nan THEN NaN ELSE J(a.v - b.v)
jsAbs(a) == IF a.nan THEN NaN ELSE J(IF a.v < 0 THEN 0 - a.v ELSE a.v)
\* a * k for a constant k
jsTimes(a, k) == IF a.nan THEN NaN ELSE J(a.v * k)
\* a > b is false when either side is NaN
jsGreater(a, b) == ~a.nan /\ ~b.nan /\ a.v > b.v

\* template.key as a number: a property the object does not have is undefined,
\* which arithmetic turns into NaN.
numberProperty(object, key) ==
  IF key \in DOMAIN object THEN J(object[key]) ELSE NaN

\* The catalogue of getEffectTemplates, by type.
javascriptTemplates ==
  <<[name |-> "ParticleSystem", category |-> "particle", performance |-> 80],
    [name |-> "CSSAnimation", category |-> "animation", performance |-> 90],
    [name |-> "CanvasEffect", category |-> "visual", performance |-> 70]>>
cssTemplates ==
  <<[name |-> "Transform3D", category |-> "transform", performance |-> 95]>>
aftereffectsTemplates ==
  <<[name |-> "Expression", category |-> "expression", performance |-> 80]>>

\* Names every object answers to through Object.prototype (some of them).
ObjectPrototypeKeys == {"constructor", "toString", "valueOf", "hasOwnProperty"}

\* What templates[type] finds when type is not an own key: an inherited
\* function, which is truthy, or undefined.
Inherited(type) == [kind |-> "function", name |-> type]

\* getEffectTemplates(type): templates[type] || templates.javascript
getEffectTemplates(type) ==
  CASE type = "javascript" -> [kind |-> "array", items |-> javascriptTemplates]
    [] type = "css" -> [kind |-> "array", items |-> cssTemplates]
    [] type = "aftereffects" -> [kind |-> "array", items |-> aftereffectsTemplates]
    [] type \in ObjectPrototypeKeys -> Inherited(type)
    [] OTHER -> [kind |-> "array", items |-> javascriptTemplates]

calculateTemplateScore(dna, template) ==
  LET complexityMatch ==
        jsSub(J(100), jsAbs(jsSub(numberProperty(template, "complexity"),
                                  J(dna.emotionalProfile.complexity))))
      energyMatch ==
        jsSub(J(100), jsAbs(jsSub(numberProperty(template, "energy"),
                                  J(dna.emotionalProfile.energy))))
  IN  jsAdd(jsAdd(jsAdd(J(0), jsTimes(numberProperty(template, "performance"), 4)),
                  jsTimes(complexityMatch, 3)),
            jsTimes(energyMatch, 3))

\* The loop of selectBestTemplate over the first n templates.
RECURSIVE bestOf(_, _, _)
bestOf(dna, items, n) ==
  IF n = 0 THEN [bestTemplate |-> items[1], bestScore |-> J(0)]
  ELSE LET best == CHOOSE x \in {bestOf(dna, items, n - 1)} : TRUE
           score == calculateTemplateScore(dna, items[n])
       IN  IF jsGreater(score, best.bestScore)
           THEN [bestTemplate |-> items[n], bestScore |-> score]
           ELSE best

\* selectBestTemplate(dna, templates): the template, or the TypeError of
\* 'for (const template of templates)' when templates is not an array.
selectBestTemplate(dna, templates) ==
  IF templates.kind = "array"
  THEN [kind |-> "template", template |-> bestOf(dna, templates.items, Len(templates.items)).bestTemplate]
  ELSE Raised("templates is not iterable")

\* selectEffectTemplate(dna, type): templates[type] || templates.javascript
selectEffectTemplate(dna, type) ==
  CASE type = "javascript" -> [kind |-> "string", text |-> "JavaScriptTemplate"]
    [] type = "css" -> [kind |-> "string", text |-> "CSSTemplate"]
    [] type = "aftereffects" -> [kind |-> "string", text |-> "AfterEffectsTemplate"]
    [] type \in ObjectPrototypeKeys -> Inherited(type)
    [] OTHER -> [kind |-> "string", text |-> "JavaScriptTemplate"]

\* populateTemplate(template, dna): the placeholders replaced, or the TypeError
\* of template.replace when template is not a string.
populateTemplate(template, dna) ==
  IF template.kind = "string"
  THEN [kind |-> "code", template |-> template.text,
        energy |-> dna.emotionalProfile.energy, complexity |-> dna.emotionalProfile.complexity]
  ELSE Raised("template.replace is not a function")

\* generateEffectFromDNA(dna, type)
generateEffectFromDNA(dna, type) ==
  IF ~isInitialized THEN Raised("AI Engine not initialized")
  ELSE populateTemplate(selectEffectTemplate(dna, type), dna)

\* The profile values of a DNA, in percent.
ProfileValues == {0, 30, 50, 80, 100}
TemplateDnas ==
  {[emotionalProfile |-> [energy |-> e, complexity |-> c]] : e \in ProfileValues, c \in ProfileValues}
\* The types asked for: the three with templates, 'all' of the request schema,
\* an unknown one, and names of Object.prototype.
TemplateTypes == {"javascript", "css", "aftereffects", "all", "webgl", "constructor", "toString"}

InitTemplates ==
  /\ ServerIdle /\ ClientIdle /\ RoutesIdle /\ StoreIdle
  /\ side = "templates"
  /\ isInitialized = TRUE
  /\ neuralModel = "loaded"
  /\ startup = "listening"
  /\ initCalls = [c \in 1..MaxInitCalls |-> "idle"]
  /\ content = <<>>
  /\ response = NoResponse
  /\ tplDna \in TemplateDnas
  /\ tplType \in TemplateTypes
  /\ tplResult = [pc |-> "none"]

\* generateBaseEffect on the client: getEffectTemplates, then selectBestTemplate
GenerateBaseEffect ==
  /\ side = "templates"
  /\ tplResult.pc = "none"
  /\ \E templates \in {getEffectTemplates(tplType)} :
       tplResult' = [pc |-> "client", templates |-> templates,
                     selectedTemplate |-> selectBestTemplate(tplDna, templates)]
  /\ UNCHANGED <<side, srvVars, cliVars, routeVars, storeVars, engineVars, tplDna, tplType>>

\* aiEngine.generateEffectFromDNA(dna, type) on the server
GenerateEffectFromDNA ==
  /\ side = "templates"
  /\ tplResult.pc = "none"
  /\ tplResult' = [pc |-> "server", template |-> selectEffectTemplate(tplDna, tplType),
                   generatedCode |-> generateEffectFromDNA(tplDna, tplType)]
  /\ UNCHANGED <<side, srvVars, cliVars, routeVars, storeVars, engineVars, tplDna, tplType>>

NextTemplates == GenerateBaseEffect \/ GenerateEffectFromDNA

SpecTemplates == InitTemplates /\ [][NextTemplates]_vars

(***************************************************************************)
(* Client: the optimizer of effect-generator.ts.  A code text is a         *)
(* sequence of pieces: each digit and each white-space character is a      *)
(* piece of its own, and each word the rewriting rules look for            *)
(* ('particleCount', 'new Array(', 'setInterval', '{{FRAME_TIME}}' ...) is *)
(* one piece that no text holds in part.                                   *)
(***************************************************************************)

\* Number of fragments a code text is put together from.
MaxPieces == 3

IsDigit(piece) == piece \in {"0", "1", "2", "3", "4", "5", "6", "7", "8", "9"}
IsSpace(piece) == piece \in {" ", "\n"}

\* \s* from position i: the first position that holds no white space.
SkipSpaces(code, i) ==
  CHOOSE j \in i..(Len(code) + 1) :
    /\ \A m \in i..(j - 1) : IsSpace(code[m])
    /\ j = Len(code) + 1 \/ ~IsSpace(code[j])

\* \d+ from position k, greedy: the last position of the run of digits (k - 1
\* when there is no digit at k).
DigitRunEnd(code, k) ==
  CHOOSE d \in (k - 1)..Len(code) :
    /\ \A m \in k..d : IsDigit(code[m])
    /\ d = Len(code) \/ ~IsDigit(code[d + 1])

\* /particleCount\s*=\s*\d+/ at position i: the last position of the match, 0
\* when there is none.
particleCountMatch(code, i) ==
  IF code[i] # "particleCount" THEN 0
  ELSE LET j == SkipSpaces(code, i + 1)
       IN  IF j > Len(code) \/ code[j] # "=" THEN 0
           ELSE LET k == SkipSpaces(code, j + 1)
                    d == DigitRunEnd(code, k)
                IN  IF d >= k THEN d ELSE 0

\* /new Array\(\d+\)/ at position i: the last position of the match, 0 when
\* there is none.
newArrayMatch(code, i) ==
  IF code[i] # "new Array(" THEN 0
  ELSE LET d == DigitRunEnd(code, i + 1)
       IN  IF d >= i + 1 /\ d < Len(code) /\ code[d + 1] = ")" THEN d + 1 ELSE 0

\* code.replace(/particleCount\s*=\s*\d+/g, 'particleCount = ' + count), from
\* position i on
RECURSIVE replaceParticleCount(_, _, _)
replaceParticleCount(code, i, count) ==
  IF i > Len(code) THEN <<>>
  ELSE LET e == particleCountMatch(code, i)
       IN  IF e > 0
           THEN <<"particleCount", " ", "=", " ">> \o count
                  \o replaceParticleCount(code, e + 1, count)
           ELSE <<code[i]>> \o replaceParticleCount(code, i + 1, count)

\* code.replace(/new Array\(\d+\)/g, '[]'), from position i on
RECURSIVE replaceNewArray(_, _)
replaceNewArray(code, i) ==
  IF i > Len(code) THEN <<>>
  ELSE LET e == newArrayMatch(code, i)
       IN  IF e > 0 THEN <<"[]">> \o replaceNewArray(code, e + 1)
           ELSE <<code[i]>> \o replaceNewArray(code, i + 1)

\* code.replace(/word/g, text) for a word that is one piece
RECURSIVE replaceWord(_, _, _)
replaceWord(code, word, text) ==
  IF code = <<>> THEN <<>>
  ELSE (IF Head(code) = word THEN text ELSE <<Head(code)>>)
         \o replaceWord(Tail(code), word, text)

optimizeMemoryUsage(code) ==
  replaceWord(replaceNewArray(code, 1), "setInterval", <<"requestAnimationFrame">>)

\* (1000 / targetFps).toString() for the frame rates of TargetFpsValues
frameTimeText(targetFps) ==
  CASE targetFps = 50  -> <<"2", "0">>
    [] targetFps = 60  -> <<"1", "6", ".", "6", "6", "6", "6", "6", "6", "6", "6", "6", "6",
                            "6", "6", "6", "6", "8">>
    [] targetFps = 120 -> <<"8", ".", "3", "3", "3", "3", "3", "3", "3", "3", "3", "3", "3",
                            "3", "3", "3", "4">>

optimizeFrameRate(code, targetFps) ==
  replaceWord(code, "{{FRAME_TIME}}", frameTimeText(targetFps))

\* The rule with a pattern that has no g flag: the first match alone.
RECURSIVE optimizeFirstMatch(_)
optimizeFirstMatch(code) ==
  IF code = <<>> THEN <<>>
  ELSE LET e == particleCountMatch(code, 1)
       IN  IF e > 0
           THEN <<"particleCount", " ", "=", " ", "5", "0">> \o SubSeq(code, e + 1, Len(code))
           ELSE <<Head(code)>> \o optimizeFirstMatch(Tail(code))

optimizeForMobile(code) ==
  replaceParticleCount(code, 1, <<"5", "0">>)

optimizeForDesktop(code) ==
  replaceParticleCount(code, 1, <<"2", "0", "0">>)

optimizeForPlatform(code, platform) ==
  CASE platform = "mobile" -> optimizeForMobile(code)
    [] platform = "desktop" -> optimizeForDesktop(code)
    [] OTHER -> code

\* optimizeEffect: the code it returns
optimizedCode(code, options) ==
  LET c1 == IF options.maxMemory < 512 THEN optimizeMemoryUsage(code) ELSE code
      c2 == IF options.targetFps > 30 THEN optimizeFrameRate(c1, options.targetFps) ELSE c1
  IN  optimizeForPlatform(c2, options.platform)

\* The fragments code texts are made of.
Pieces ==
  {<<"particleCount", " ", "=", " ">>,
   <<"particleCount", "=", "7", ";">>,
   <<"9", "9", "9">>,
   <<"new Array(">>,
   <<")">>,
   <<"{{FRAME_TIME}}">>,
   <<"setInterval", "(">>}

RECURSIVE TextsOf(_)
TextsOf(n) ==
  IF n = 0 THEN {<<>>}
  ELSE LET shorter == TextsOf(n - 1)
       IN  shorter \cup {text \o piece : text \in shorter, piece \in Pieces}

CodeTexts == TextsOf(MaxPieces)

MaxMemoryValues == {256, 512}
TargetFpsValues == {30, 50, 60}
\* 'tv' stands for a value outside the declared three.
Platforms == {"web", "mobile", "desktop", "tv"}

OptimizerOptions ==
  [maxMemory : MaxMemoryValues, targetFps : TargetFpsValues, platform : Platforms]

InitOptimizer ==
  /\ ServerIdle /\ ClientIdle /\ RoutesIdle /\ StoreIdle /\ EngineIdle
  /\ side = "optimizer"
  /\ tplDna = [kind |-> "none"]
  /\ tplType = ""
  /\ \E code \in CodeTexts, options \in OptimizerOptions :
       tplResult = [pc |-> "code", code |-> code, options |-> options]

\* optimizeForPlatform(code, platform)
OptimizeForPlatform ==
  /\ side = "optimizer"
  /\ tplResult.pc = "code"
  /\ tplResult' = [pc |-> "platform", code |-> tplResult.code, options |-> tplResult.options,
                   result |-> optimizeForPlatform(tplResult.code, tplResult.options.platform)]
  /\ UNCHANGED <<side, srvVars, cliVars, routeVars, storeVars, engineVars, tplDna, tplType>>

\* optimizeEffect(effect, options)
OptimizeEffect ==
  /\ side = "optimizer"
  /\ tplResult.pc = "code"
  /\ tplResult' = [pc |-> "once", code |-> tplResult.code, options |-> tplResult.options,
                   result |-> optimizedCode(tplResult.code, tplResult.options)]
  /\ UNCHANGED <<side, srvVars, cliVars, routeVars, storeVars, engineVars, tplDna, tplType>>

\* optimizeEffect on the effect it returned, with the same options
OptimizeEffectAgain ==
  /\ side = "optimizer"
  /\ tplResult.pc = "once"
  /\ tplResult' = [pc |-> "twice", code |-> tplResult.code, options |-> tplResult.options,
                   once |-> tplResult.result,
                   result |-> optimizedCode(tplResult.result, tplResult.options)]
  /\ UNCHANGED <<side, srvVars, cliVars, routeVars, storeVars, engineVars, tplDna, tplType>>

NextOptimizer == OptimizeForPlatform \/ OptimizeEffect \/ OptimizeEffectAgain

SpecOptimizer == InitOptimizer /\ [][NextOptimizer]_vars

(***************************************************************************)
(* Client: generateFromPrompt of effect-generator.ts.  The templates are   *)
(* code texts whose placeholders, anchors and markers are pieces; the text *)
(* between them is the piece '<text>'.                                     *)
(***************************************************************************)

getParticleTemplate ==
  <<"class ", "{{EFFECT_NAME}}", "<text>", "// CONSTITUTIONAL_SETUP", "\n", "this.init();",
    "<text>", "particleCount", ":", " ", "1", "0", "0", ",", "<text>", "{{ENERGY}}", "<text>",
    "{{COMPLEXITY}}", "<text>", "{{TARGET_FPS}}", "<text>", "init() {", "<text>",
    "particleCount", ";", "<text>", "render()", "<text>", "{{FRAME_TIME}}", "<text>",
    "optimizeForNextFrame", "<text>", "requestAnimationFrame", "<text>">>

getAnimationTemplate ==
  <<".", "{{EFFECT_NAME}}", "<text>", "{{ENERGY}}", "<text>", "{{COMPLEXITY}}", "<text>">>

getCanvasTemplate ==
  <<"class ", "{{EFFECT_NAME}}", "<text>", "// CONSTITUTIONAL_SETUP", "\n", "this.init();",
    "<text>", "render()", "<text>", "{{ENERGY}}", "<text>", "{{COMPLEXITY}}", "<text>",
    "requestAnimationFrame", "<text>">>

getTransformTemplate ==
  <<".", "{{EFFECT_NAME}}", "<text>", "{{ENERGY}}", "<text>", "{{COMPLEXITY}}", "<text>">>

getAETemplate ==
  <<"<text>", "{{EFFECT_NAME}}", "<text>", "{{ENERGY}}", "<text>", "{{COMPLEXITY}}", "<text>",
    "var time = thisComp.time;", "<text>">>

\* template.baseCode
baseCode(template) ==
  CASE template.name = "ParticleSystem" -> getParticleTemplate
    [] template.name = "CSSAnimation" -> getAnimationTemplate
    [] template.name = "CanvasEffect" -> getCanvasTemplate
    [] template.name = "Transform3D" -> getTransformTemplate
    [] template.name = "Expression" -> getAETemplate

\* n.toString() for a natural number
RECURSIVE DigitText(_)
DigitText(n) == IF n < 10 THEN <<ToString(n)>> ELSE Append(DigitText(n \div 10), ToString(n % 10))

\* x.toString() for a profile value x, kept in percent
profileText(pct) ==
  IF pct % 100 = 0 THEN DigitText(pct \div 100)
  ELSE IF pct % 10 = 0 THEN <<"0", ".", ToString(pct \div 10)>>
  ELSE <<"0", ".", ToString(pct \div 10), ToString(pct % 10)>>

\* code.replace(word, text) with a string for pattern: the first occurrence alone
RECURSIVE replaceFirst(_, _, _)
replaceFirst(code, word, text) ==
  IF code = <<>> THEN <<>>
  ELSE IF Head(code) = word THEN text \o Tail(code)
  ELSE <<Head(code)>> \o replaceFirst(Tail(code), word, text)

\* The setup put in front of the anchor, which is kept.
addSetupBeforeAnchor(code) ==
  replaceFirst(code, "// CONSTITUTIONAL_SETUP",
               <<"<constitutionalSetup>", "// CONSTITUTIONAL_SETUP">>)

addConstitutionalSetup(code) ==
  replaceFirst(code, "// CONSTITUTIONAL_SETUP", <<"<constitutionalSetup>">>)

generateCode(template, dna, options) ==
  LET c1 == replaceWord(baseCode(template), "{{TARGET_FPS}}", DigitText(options.targetFps))
      c2 == replaceWord(c1, "{{MAX_MEMORY}}", DigitText(options.maxMemory))
      c3 == replaceWord(c2, "{{ENERGY}}", profileText(dna.emotionalProfile.energy))
      c4 == replaceWord(c3, "{{COMPLEXITY}}", profileText(dna.emotionalProfile.complexity))
  IN  IF options.enableConstitution THEN addConstitutionalSetup(c4) ELSE c4

\* The markers a piece of a code text contains.
PieceMarkers(piece) ==
  CASE piece = "this.init();" -> {"this.init();", "init()"}
    [] piece = "init() {" -> {"init() {", "init()"}
    [] piece = "<constitutionalSetup>" ->
         {"performanceMonitor", "autoCalibrate", "detectPlatform", "setupCrossBrowserCompat"}
    [] piece \in {"optimizeForNextFrame", "render()", "requestAnimationFrame",
                  "var time = thisComp.time;"} -> {piece}
    [] OTHER -> {}

\* The code text as the compliance engine reads it.
CodeOf(text) ==
  [base |-> "generated", ins |-> <<>>, app |-> <<>>,
   markers |-> UNION {PieceMarkers(text[i]) : i \in DOMAIN text}]

\* parseInt of a run of digits
RECURSIVE parseDigits(_)
parseDigits(digits) ==
  IF digits = <<>> THEN 0
  ELSE 10 * parseDigits(SubSeq(digits, 1, Len(digits) - 1))
       + (CHOOSE n \in 0..9 : ToString(n) = digits[Len(digits)])

extractParticleCount(code) ==
  LET found == {i \in DOMAIN code : particleCountMatch(code, i) > 0}
  IN  IF found = {} THEN 100
      ELSE LET i == CHOOSE x \in found : \A y \in found : x <= y
               d == particleCountMatch(code, i)
               k == CHOOSE x \in (i + 1)..d :
                      \A m \in x..d : IsDigit(code[m]) /\ ~IsDigit(code[x - 1])
           IN  parseDigits(SubSeq(code, k, d))

estimateMemoryUsage(code) == Round(640 + extractParticleCount(code), 10)

\* estimateRenderTime adds Math.random() * 5 to a hundredth of the length of
\* the code: the values it can give for the templates.
EstimatedRenderTimes == {15, 20}

\* generateFromPrompt from the DNA of the prompt on: generateBaseEffect,
\* optimizeEffect, and enforceCompliance when the option asks for it.
generateFromPrompt(dna, options, renderTime) ==
  LET templates == getEffectTemplates(options.type)
      selected  == selectBestTemplate(dna, templates).template
      text      == optimizedCode(generateCode(selected, dna, options), options)
      effect    == [code |-> CodeOf(text),
                    metadata |-> [renderTime |-> renderTime,
                                  memoryUsage |-> estimateMemoryUsage(text),
                                  fps |-> options.targetFps,
                                  constitutionScore |-> 0],
                    dna |-> [energy |-> dna.emotionalProfile.energy,
                             elegance |-> dna.emotionalProfile.elegance]]
      finished  == IF options.enableConstitution THEN enforceCompliance(effect) ELSE effect
  IN  [text |-> text, code |-> finished.code, metadata |-> finished.metadata]

GeneratorDnas ==
  {[emotionalProfile |-> [energy |-> e, complexity |-> c, elegance |-> el]] :
     e \in EnergyPcts, c \in {30, 100}, el \in ElegancePcts}

GeneratorOptions ==
  [type : {"javascript", "css", "aftereffects"}, targetFps : TargetFpsValues,
   maxMemory : MaxMemoryValues, enableConstitution : BOOLEAN,
   platform : {"web", "mobile", "desktop"}]

InitGenerator ==
  /\ ServerIdle /\ ClientIdle /\ RoutesIdle /\ StoreIdle /\ EngineIdle
  /\ side = "generator"
  /\ tplDna \in GeneratorDnas
  /\ \E options \in GeneratorOptions :
       /\ tplType = options.type
       /\ tplResult = [pc |-> "options", options |-> options]

\* effectGenerator.generateFromPrompt(prompt, options)
GenerateFromPrompt ==
  /\ side = "generator"
  /\ tplResult.pc = "options"
  /\ \E renderTime \in EstimatedRenderTimes :
       tplResult' = [pc |-> "finished", options |-> tplResult.options,
                     effect |-> generateFromPrompt(tplDna, tplResult.options, renderTime)]
  /\ UNCHANGED <<side, srvVars, cliVars, routeVars, storeVars, engineVars, tplDna, tplType>>

\* generateCode for the selected template, as generateBaseEffect calls it
GenerateCode ==
  /\ side = "generator"
  /\ tplResult.pc = "options"
  /\ \E templates \in {getEffectTemplates(tplType)} :
       tplResult' = [pc |-> "code", options |-> tplResult.options,
                     code |-> generateCode(selectBestTemplate(tplDna, templates).template,
                                           tplDna, tplResult.options)]
  /\ UNCHANGED <<side, srvVars, cliVars, routeVars, storeVars, engineVars, tplDna, tplType>>

\* addConstitutionalSetup on code that generateCode returned with the setup
AddConstitutionalSetup ==
  /\ side = "generator"
  /\ tplResult.pc = "code"
  /\ tplResult.options.enableConstitution
  /\ tplResult' = [pc |-> "again", options |-> tplResult.options, code |-> tplResult.code,
                   result |-> addConstitutionalSetup(tplResult.code)]
  /\ UNCHANGED <<side, srvVars, cliVars, routeVars, storeVars, engineVars, tplDna, tplType>>

NextGenerator == GenerateFromPrompt \/ GenerateCode \/ AddConstitutionalSetup

SpecGenerator == InitGenerator /\ [][NextGenerator]_vars

-----------------------------------------------------------------------------
Init ==
  \/ InitServer /\ ClientIdle /\ RoutesIdle /\ AuxIdle
  \/ InitClient /\ ServerIdle /\ RoutesIdle /\ AuxIdle

Next ==
  \/ ValidateCompliance
  \/ ValidateAndEnforce
  \/ EnforceCompliance
  \/ ValidateComplianceForDisplay

Spec == Init /\ [][Next]_vars

-----------------------------------------------------------------------------
(* Properties of scoring and enforcement *)

\* The effect the server's last scoring was computed on.
ScoredEffect == IF srvOp = "enforce" THEN srvInput ELSE srvEffect

SameCodeAndMetrics(a, b) ==
  /\ a.javascriptCode = b.javascriptCode
  /\ a.cssCode = b.cssCode
  /\ a.afterEffectsCode = b.afterEffectsCode
  /\ a.renderTime = b.renderTime
  /\ a.targetFps = b.targetFps
  /\ a.memoryUsage = b.memoryUsage

CarriesReport(effect, compliance) ==
  /\ effect.constitutionScore = compliance.totalScore
  /\ effect.performanceCompliant = compliance.performanceCompliant
  /\ effect.intelligenceAdaptive = compliance.intelligenceAdaptive
  /\ effect.universalCompatible = compliance.universalCompatible
  /\ effect.perfectExperience = compliance.perfectExperience
  /\ effect.visualImpact = compliance.visualImpact
  /\ effect.addictiveEcosystem = compliance.addictiveEcosystem
  /\ effect.competitiveDomination = compliance.competitiveDomination

\* C1: when an enforcement pass changed the code or metrics, the score and the
\* seven flags of the returned effect are those obtained by scoring the
\* enforced effect again (server validateAndEnforce, client enforceCompliance).
C1_RescoredAfterEnforcement ==
  /\ (side = "server" /\ srvOp = "enforce" /\ ~SameCodeAndMetrics(srvInput, srvEffect))
       => CarriesReport(srvEffect, validateCompliance(srvEffect))
  /\ (side = "client" /\ cliRuns >= 1 /\ cliEffect.code # cliInput.code)
       => cliEffect.metadata.constitutionScore = cliReport.totalScore

\* C5: a second enforcement call on the result of the first leaves the code
\* as the first call left it (no block is appended a second time).
C5_EnforcementIdempotent ==
  /\ (side = "server" /\ srvRuns >= 2)
       => /\ srvEffect.javascriptCode = srvInput.javascriptCode
          /\ srvEffect.cssCode = srvInput.cssCode
          /\ srvEffect.afterEffectsCode = srvInput.afterEffectsCode
  /\ (side = "client" /\ cliRuns >= 2) => cliEffect.code = cliInput.code

\* C6: in every server report each article's compliant flag equals
\* (reported score >= 90), and (reported score >= 95) for article 7.
C6_FlagsMatchReportedScores ==
  srvReport # NoReport =>
    /\ \A i \in 1..6 : srvReport.details[i].compliant = (srvReport.details[i].score >= 90)
    /\ srvReport.details[7].compliant = (srvReport.details[7].score >= 95)

\* round(sum of weight_i * score_i / 100) over the reported article scores
WeightedTotal(details) ==
  Round(143 * (details[1].score + details[2].score + details[3].score
               + details[4].score + details[5].score + details[6].score)
        + 142 * details[7].score, 1000)

\* C7: the server's totalScore is the rounded weighted sum of the article
\* scores of the same report (weights 14.3 x 6 and 14.2), and the
\* constitutionScore set by validateAndEnforce is that value.
C7_TotalIsWeightedSum ==
  srvReport # NoReport =>
    /\ srvReport.totalScore = WeightedTotal(srvReport.details)
    /\ srvOp = "enforce" => srvEffect.constitutionScore = WeightedTotal(srvReport.details)

\* C7 witness: a validateAndEnforce call whose report has unequal article
\* scores and a total strictly between 0 and 100.
C7_Witness ==
  /\ srvOp = "enforce"
  /\ srvReport.details[1].score # srvReport.details[7].score
  /\ srvReport.details[2].score # srvReport.details[3].score
  /\ srvReport.totalScore > 50 /\ srvReport.totalScore < 90
  /\ srvEffect.constitutionScore = srvReport.totalScore

\* C8: the 40-point part of Article VII (kept times 3) is 40 * k / 6 with k
\* the number of articles 1..6 found compliant in the same scoring call.
C8_DominationUsesCurrentCompliance ==
  srvReport # NoReport =>
    otherArticlesPart(ScoredEffect)
      = 20 * Cardinality({i \in 1..6 : srvReport.details[i].compliant})

\* C10: enforcement run on an effect whose Article 1 is non-compliant at the
\* first scoring returns renderTime <= 15, targetFps >= 60, memoryUsage <= 256.
C10_PerformanceClamped ==
  /\ (side = "server" /\ srvOp = "enforce" /\ ~srvReport.performanceCompliant)
       => /\ srvEffect.renderTime <= 15
          /\ srvEffect.targetFps >= 60
          /\ srvEffect.memoryUsage <= 256
  /\ (side = "client" /\ cliRuns >= 1 /\ ~validator(1, cliInput))
       => /\ cliEffect.metadata.renderTime <= 15
          /\ cliEffect.metadata.fps >= 60
          /\ cliEffect.metadata.memoryUsage <= 256

-----------------------------------------------------------------------------
(* Properties of the generate route *)

\* The background run of a request has finished.
RunFinished(r) == requests[r].pc = "done"

\* C2: once the background run of a generate request has finished, the session
\* created for that request has status error, or status completed with the
\* effectId of the effect the run persisted; it is no longer processing.
C2_SessionLeavesProcessing ==
  \A r \in 1..MaxRequests :
    RunFinished(r) =>
      LET session == aiSessions[requests[r].session]
      IN  \/ session.status = "error"
          \/ /\ session.status = "completed"
             /\ session.effectId = requests[r].savedEffect

\* C3: the sessionId answered by POST /api/effects/generate is the id of the
\* session record created for that request, so getAiSession(sessionId) finds it.
C3_ReturnedIdIsSessionId ==
  \A r \in 1..MaxRequests :
    requests[r].pc \in {"generating", "validating", "saved", "done"} =>
      /\ requests[r].sessionId \in DOMAIN aiSessions
      /\ requests[r].sessionId = requests[r].session

\* C4: when a background run has failed, the session of its request has status
\* error with the message and the elapsed time, and the store holds no effect
\* created by that run.
C4_FailedRunLeavesNoEffect ==
  \A r \in 1..MaxRequests :
    (RunFinished(r) /\ requests[r].failed) =>
      /\ aiSessions[requests[r].session].status = "error"
      /\ "response" \in DOMAIN aiSessions[requests[r].session]
      /\ "processingTime" \in DOMAIN aiSessions[requests[r].session]
      /\ requests[r].savedEffect \notin DOMAIN effects

\* A constitution-enabled run whose enforcement pass modified the effect has
\* persisted its effect.
EnforcedAndSaved(r) ==
  /\ requests[r].pc \in {"saved", "done"}
  /\ requests[r].enableConstitution
  /\ requests[r].validatedEffect # NoEffect
  /\ ~SameCodeAndMetrics(requests[r].generated, requests[r].validatedEffect)

\* C9: with enableConstitution set and an enforcement pass that modified the
\* effect, the persisted effect carries the enforced code, renderTime,
\* targetFps and memoryUsage together with the score and flags.
C9_PersistedEffectIsEnforced ==
  \A r \in 1..MaxRequests :
    EnforcedAndSaved(r) =>
      LET persisted == effects[requests[r].savedEffect]
      IN  /\ SameCodeAndMetrics(persisted, requests[r].validatedEffect)
          /\ persisted.constitutionScore = requests[r].validatedEffect.constitutionScore
          /\ persisted.performanceCompliant = requests[r].validatedEffect.performanceCompliant

-----------------------------------------------------------------------------
(* Properties of enforcement: score, passes, purity *)

\* C11: the totalScore obtained by scoring the effect after an enforcement
\* call is at least the totalScore of the effect the call was given, on a first
\* call and on a repeated call (server validateAndEnforce; client
\* enforceCompliance, whose own re-scoring of the enforced effect is that score).
C11_EnforcementNeverLowersScore ==
  /\ (side = "server" /\ srvOp = "enforce")
       => validateCompliance(srvEffect).totalScore >= validateCompliance(srvInput).totalScore
  /\ (side = "client" /\ cliRuns >= 1)
       => cliReport.totalScore >= cliValidateCompliance(cliInput).totalScore

NoDuplicates(seq) == \A i, j \in DOMAIN seq : seq[i] = seq[j] => i = j

\* The blocks a call appended to a code text, and the fragments it inserted.
AppendedBy(after, before) == SubSeq(after.app, Len(before.app) + 1, Len(after.app))
InsertedBy(after, before) == SubSeq(after.ins, 1, Len(after.ins) - Len(before.ins))

\* What one call added to a code text: every block and fragment at most once.
AddedOnce(after, before) ==
  /\ NoDuplicates(AppendedBy(after, before))
  /\ NoDuplicates(InsertedBy(after, before))

\* C12: one call of validateAndEnforce or of enforceCompliance makes at most
\* one enforcement pass: each article's block is added at most once by the
\* call, whatever the scores are.
C12_OneEnforcementPass ==
  /\ (side = "server" /\ srvOp = "enforce")
       => /\ AddedOnce(srvEffect.javascriptCode, srvInput.javascriptCode)
          /\ AddedOnce(srvEffect.cssCode, srvInput.cssCode)
          /\ AddedOnce(srvEffect.afterEffectsCode, srvInput.afterEffectsCode)
          /\ Len(AppendedBy(srvEffect.javascriptCode, srvInput.javascriptCode)) <= 6
  /\ (side = "client" /\ cliRuns >= 1)
       => /\ AddedOnce(cliEffect.code, cliInput.code)
          /\ Len(AppendedBy(cliEffect.code, cliInput.code)) <= 7

\* A server call that enforced all six articles on JavaScript code, each
\* with its block appended and its fragment inserted after 'init() {'.
C12_Witness ==
  /\ side = "server" /\ srvOp = "enforce"
  /\ Len(AppendedBy(srvEffect.javascriptCode, srvInput.javascriptCode)) = 6
  /\ Len(InsertedBy(srvEffect.javascriptCode, srvInput.javascriptCode)) = 6

-----------------------------------------------------------------------------
(* Properties of the store under concurrent updates *)

\* The updates of the sequence that set field f.
Writers(updates, f) == {i \in DOMAIN updates : f \in DOMAIN updates[i]}

\* record holds, for each field, the value of the last update that set it, and
\* the value of the record as created for a field no update set.
HoldsEveryUpdate(record, created, updates) ==
  /\ \A i \in DOMAIN updates : DOMAIN updates[i] \subseteq DOMAIN record
  /\ \A f \in DOMAIN record :
       IF Writers(updates, f) # {}
       THEN record[f] = updates[CHOOSE i \in Writers(updates, f) :
                                  \A j \in Writers(updates, f) : j <= i][f]
       ELSE f = "updatedAt" \/ (f \in DOMAIN created /\ record[f] = created[f])

\* C13: under any interleaving of update calls on the same Effect, File or
\* Session record, the record contains what every update wrote: a later update
\* wins only on the fields both set, and no update is lost.
C13_NoLostUpdate ==
  side = "store" =>
    /\ HoldsEveryUpdate(effects[1], sampleEffect, applied.effects)
    /\ HoldsEveryUpdate(files[3], storedFile, applied.files)
    /\ HoldsEveryUpdate(aiSessions[2], storedSession, applied.aiSessions)

\* Two callers have interleaved updates of the same File: the second caller's
\* update came between the first caller's two, and set a field the others did not.
C13_Witness ==
  /\ side = "store"
  /\ Len(applied.files) = 3
  /\ "parsedContent" \in DOMAIN applied.files[2]
  /\ "parsedContent" \notin DOMAIN applied.files[3]
  /\ callers[1].calls = 2 /\ callers[2].calls = 1
  /\ files[3].parsedContent = "content"

(***************************************************************************)
(* Properties of the AI engine behind its routes                           *)
(***************************************************************************)

\* An analysis request that reached analyzeContent has been answered.
Analyzed ==
  /\ response.kind = "response"
  /\ response.route = "analyze"
  /\ content # <<>>

\* C14: the outcome of a request does not depend on the requests interleaved
\* with it: the analyzer holds no state another request can change, so an
\* analysis is answered as it is when it runs alone on the started server.
C14_OutcomeAsIfAlone ==
  Analyzed => response.body = analyzeWith(TRUE, "loaded", content)

\* C16: analyzeContent returns an EffectDNA and never raises, for every content
\* and in every state of the engine that initialize, shutdown and analysis
\* calls lead to.
C16_AnalyzeNeverRaises ==
  Analyzed => response.body.kind = "dna"

(***************************************************************************)
(* Properties of repeated scoring                                          *)
(***************************************************************************)

\* Every scoring in the sequence was given the held effect and returned the
\* same compliance as the first one.
AllAlike(scorings, held) ==
  \A i \in 1..Len(scorings) :
    /\ scorings[i].effect = held
    /\ scorings[i].compliance = scorings[1].compliance

InUnit(f) == f.d > 0 /\ 0 <= f.n /\ f.n <= f.d

\* the tokens of the analysed content
Tokens == tokenizeContent(content)

\* C17: energy, complexity, elegance and confidenceScore of every DNA lie in
\* [0,1]; for a content without tokens they are all 0 and primaryConcepts is
\* empty.
C17_ProfileInUnitInterval ==
  response.kind = "dna" =>
    /\ InUnit(response.emotionalProfile.energy)
    /\ InUnit(response.emotionalProfile.complexity)
    /\ InUnit(response.emotionalProfile.elegance)
    /\ InUnit(response.confidenceScore)
    /\ Tokens = <<>> =>
         /\ response.emotionalProfile.energy.n = 0
         /\ response.emotionalProfile.complexity.n = 0
         /\ response.emotionalProfile.elegance.n = 0
         /\ response.confidenceScore.n = 0
         /\ response.primaryConcepts = <<>>

\* A content of vocabulary words only, with five concepts, and one with words
\* but no token, have been analysed.
C17_Witness ==
  /\ response.kind = "dna"
  /\ \/ response.confidenceScore.n = response.confidenceScore.d
     \/ content # <<>> /\ Tokens = <<>>

Occurrences(t) == Cardinality({i \in 1..Len(Tokens) : Tokens[i] = t})
FirstOccurrence(t) == CHOOSE i \in 1..Len(Tokens) : Tokens[i] = t /\ \A j \in 1..(i - 1) : Tokens[j] # t
\* a comes before b: more occurrences, or as many and an earlier first one
RanksBefore(a, b) ==
  \/ Occurrences(a) > Occurrences(b)
  \/ Occurrences(a) = Occurrences(b) /\ FirstOccurrence(a) < FirstOccurrence(b)
InputConcepts == {Tokens[i] : i \in 1..Len(Tokens)} \cap effectKeywords

\* C18: primaryConcepts holds at most 5 entries, distinct, of the vocabulary,
\* by descending number of occurrences and, for equal numbers, in the order of
\* their first occurrence; it is the first 5 of the vocabulary tokens of the
\* input in that order.
C18_TopFiveConcepts ==
  response.kind = "dna" =>
    LET concepts == response.primaryConcepts
        chosen == {concepts[i] : i \in 1..Len(concepts)}
    IN  /\ Len(concepts) = Min(5, Cardinality(InputConcepts))
        /\ chosen \subseteq InputConcepts
        /\ \A i, j \in 1..Len(concepts) : i < j => RanksBefore(concepts[i], concepts[j])
        /\ \A t \in InputConcepts \ chosen : \A i \in 1..Len(concepts) : RanksBefore(concepts[i], t)

\* More than five concepts in the input, the first chosen one by its count
\* though it came late, and two chosen ones with the same count.
C18_Witness ==
  /\ response.kind = "dna"
  /\ Cardinality(InputConcepts) > 5
  /\ Occurrences(response.primaryConcepts[1]) >= 2
  /\ FirstOccurrence(response.primaryConcepts[1]) > 4
  /\ Occurrences(response.primaryConcepts[2]) = Occurrences(response.primaryConcepts[3])

(***************************************************************************)
(* Properties of template lookup and selection                             *)
(***************************************************************************)

\* a >= b as JavaScript compares numbers: false when either side is NaN
jsAtLeast(a, b) == ~a.nan /\ ~b.nan /\ a.v >= b.v

Selected ==
  /\ tplResult.pc = "client"
  /\ tplResult.templates.kind = "array"

\* C19: the template selected is the one of the type's catalogue with the
\* highest score, the earliest one among equals: its score is above that of
\* every earlier template and at least that of every later one.
C19_HighestScoreSelected ==
  Selected =>
    LET items == tplResult.templates.items
        chosen == tplResult.selectedTemplate.template
    IN  \E i \in 1..Len(items) :
          /\ items[i] = chosen
          /\ \A j \in (i + 1)..Len(items) :
                jsAtLeast(calculateTemplateScore(tplDna, items[i]),
                          calculateTemplateScore(tplDna, items[j]))
          /\ \A j \in 1..(i - 1) :
                jsGreater(calculateTemplateScore(tplDna, items[i]),
                          calculateTemplateScore(tplDna, items[j]))

FallbackType == tplType \notin {"javascript", "css", "aftereffects"}

\* C20: for a type other than javascript, css and aftereffects the lookup
\* does not raise and gives the javascript templates, and generation goes on
\* as for javascript.
C20_UnknownTypeFallsBack ==
  /\ (tplResult.pc = "client" /\ FallbackType) =>
        /\ tplResult.templates = getEffectTemplates("javascript")
        /\ tplResult.selectedTemplate = selectBestTemplate(tplDna, getEffectTemplates("javascript"))
  /\ (tplResult.pc = "server" /\ FallbackType) =>
        /\ tplResult.template = selectEffectTemplate(tplDna, "javascript")
        /\ tplResult.generatedCode = generateEffectFromDNA(tplDna, "javascript")

(***************************************************************************)
(* Properties of concurrent initialize and shutdown                        *)
(***************************************************************************)

\* C30: whenever isReady() is true the engine holds a model object with the
\* vocabulary and the patterns loaded, under every interleaving of initialize
\* and shutdown calls; an analysis that passes the initialization check does
\* not run against a null or empty model.
C30_ReadyMeansLoaded ==
  /\ isInitialized => neuralModel = "loaded"
  /\ (response.kind = "response" /\ response.route = "analyze" /\ response.status = 200)
       => neuralModel = "loaded"

\* After a shutdown two initialize calls overlapped: one has completed and the
\* engine is ready while the other still waits in loadNeuralModel.
C30_Witness ==
  /\ isInitialized
  /\ startup = "listening"
  /\ initCalls[1] = "loading"
  /\ response.kind = "response" /\ response.route = "initialize" /\ response.status = 200

(***************************************************************************)
(* Properties of the record ids                                            *)
(***************************************************************************)

IdIsKey(table) == \A key \in DOMAIN table : table[key].id = key

\* C24: every stored Effect, File and Session carries the id it is stored
\* under, whatever id its create payload carried and whatever updates it has
\* received, and each create call has made a record of its own.
C24_IdIsKeyAndImmutable ==
  side = "records" =>
    /\ IdIsKey(effects) /\ IdIsKey(files) /\ IdIsKey(aiSessions)
    /\ Cardinality(DOMAIN effects) + Cardinality(DOMAIN files)
         + Cardinality(DOMAIN aiSessions) = uuids

-----------------------------------------------------------------------------
(* Properties of enforcement: what it leaves, what it adds, what it stores *)

\* C25: when the first scoring of validateAndEnforce gives a totalScore of 90
\* or more, the returned effect has the javascriptCode, cssCode,
\* afterEffectsCode, renderTime, targetFps and memoryUsage of the input, even
\* when some article was found non-compliant.
C25_PassingEffectIsLeftAlone ==
  (side = "server" /\ srvOp = "enforce" /\ srvReport.totalScore >= 90)
    => SameCodeAndMetrics(srvInput, srvEffect)

\* C25 witness: a call whose first scoring passed the bar of 90 with Article I
\* and Article III non-compliant, on an effect with JavaScript code.
C25_Witness ==
  /\ side = "server" /\ srvOp = "enforce" /\ srvInput # NoEffect
  /\ srvReport.totalScore >= 90
  /\ ~srvReport.performanceCompliant /\ ~srvReport.universalCompatible
  /\ Truthy(srvInput.javascriptCode)
  /\ srvEffect.targetFps = 30

\* C26: for an effect with JavaScript code, after an enforcement pass every
\* article among 2 to 6 that was non-compliant before is found compliant when
\* the enforced effect is scored again: the pass has put all the markers the
\* article's check looks for into the code (server validator; client engine,
\* where for article 6 the marker is 'immersive').
C26_EnforcedArticlesBecomeCompliant ==
  /\ (side = "server" /\ srvOp = "enforce" /\ srvReport.totalScore < 90
        /\ Truthy(srvInput.javascriptCode))
       => \A i \in 2..6 :
            ~srvReport.details[i].compliant => ArticleResult(i, srvEffect).compliant
  /\ (side = "client" /\ cliRuns >= 1 /\ Truthy(cliInput.code))
       => /\ \A id \in 2..5 : ~validator(id, cliInput) => validator(id, cliEffect)
          /\ ~validator(6, cliInput) => Includes(cliEffect.code, "immersive")

\* C27: scoring the effect returned by an enforcement call again gives a
\* totalScore equal to the constitutionScore stored on that effect (server
\* validateAndEnforce, client enforceCompliance).
C27_StoredScoreIsFixedPoint ==
  /\ (side = "server" /\ srvOp = "enforce")
       => validateCompliance(srvEffect).totalScore = srvEffect.constitutionScore
  /\ (side = "client" /\ cliRuns >= 1)
       => cliValidateCompliance(cliEffect).totalScore = cliEffect.metadata.constitutionScore

-----------------------------------------------------------------------------
(* Properties of the file records *)

\* The ids a file can be stored under.
PossibleFileIds == 1..(1 + 2 * MaxUploads)

StatusMoves == {<<"uploaded", "parsing">>, <<"parsing", "parsed">>, <<"parsing", "error">>}

\* In one step, a stored file keeps its status or makes one of the moves, and a
\* new file starts as uploaded.
StatusStep ==
  \A id \in DOMAIN files' :
    IF id \in DOMAIN files
    THEN \/ files'[id].status = files[id].status
         \/ <<files[id].status, files'[id].status>> \in StatusMoves
    ELSE files'[id].status = "uploaded"

Settled(id) == id \in DOMAIN files /\ files[id].status \in {"parsed", "error"}

\* C29: under every interleaving of upload, the steps of parseFileAsync and
\* deleteFile, a file's status only moves uploaded -> parsing -> parsed or
\* uploaded -> parsing -> error, parsed and error are never left, and every
\* uploaded file is eventually deleted or reaches parsed or error.
C29_FileLifecycle ==
  /\ [][StatusStep]_vars
  /\ \A id \in PossibleFileIds :
       (id \in DOMAIN files) ~> (id \notin DOMAIN files \/ Settled(id))

\* C29 witness: one file parsed, another deleted while its parsing was under
\* way, whose parseFileAsync call ended with the rejection of the catch block.
C29_Witness ==
  /\ side = "files"
  /\ \E j, k \in DOMAIN requests :
       /\ requests[j].pc = "done" /\ Settled(requests[j].fileId)
       /\ requests[k].pc = "rejected" /\ requests[k].fileId \notin DOMAIN files

-----------------------------------------------------------------------------
(* Properties of the optimizer *)

\* The positions of a code text where 'particleCount = <digits>' starts.
Assignments(code) == {i \in 1..Len(code) : particleCountMatch(code, i) > 0}

\* The digits of the assignment that starts at position i.
AssignedDigits(code, i) ==
  LET d == particleCountMatch(code, i)
      RECURSIVE From(_)
      From(k) == IF k < 1 \/ ~IsDigit(code[k]) THEN <<>> ELSE Append(From(k - 1), code[k])
  IN  From(d)

\* The code text with its assignments taken out.
RECURSIVE Outside(_, _)
Outside(code, i) ==
  IF i > Len(code) THEN <<>>
  ELSE LET e == particleCountMatch(code, i)
       IN  IF e > 0 THEN <<"<assignment>">> \o Outside(code, e + 1)
           ELSE <<code[i]>> \o Outside(code, i + 1)

\* Every assignment of the code text is one of the result with these digits,
\* in canonical spacing, and the rest of the text is as it was.
Rewritten(code, result, digits) ==
  /\ Outside(result, 1) = Outside(code, 1)
  /\ \A i \in Assignments(result) :
       /\ AssignedDigits(result, i) = digits
       /\ SubSeq(result, i, i + 3) = <<"particleCount", " ", "=", " ">>

\* C21: the platform rule rewrites every 'particleCount = <digits>' of a code
\* text to 'particleCount = 50' for mobile and to 'particleCount = 200' for
\* desktop, and returns the text unchanged for web and any other platform.
C21_PlatformRule ==
  (side = "optimizer" /\ tplResult.pc = "platform") =>
    CASE tplResult.options.platform = "mobile" ->
           Rewritten(tplResult.code, tplResult.result, <<"5", "0">>)
      [] tplResult.options.platform = "desktop" ->
           Rewritten(tplResult.code, tplResult.result, <<"2", "0", "0">>)
      [] OTHER -> tplResult.result = tplResult.code

\* C21 witness: a text with two assignments, one of them written without
\* spaces, rewritten for mobile.
C21_Witness ==
  /\ side = "optimizer" /\ tplResult.pc = "platform"
  /\ tplResult.options.platform = "mobile"
  /\ Cardinality(Assignments(tplResult.code)) = 2
  /\ \E i \in Assignments(tplResult.code) : tplResult.code[i + 1] = "="
  /\ tplResult.result # tplResult.code

\* C22: rewriting the code a second time with the same options (maxMemory,
\* targetFps, platform) gives the code text the first rewriting gave.
C22_OptimizerIdempotent ==
  (side = "optimizer" /\ tplResult.pc = "twice") => tplResult.result = tplResult.once

-----------------------------------------------------------------------------
(* Properties of the generated code *)

\* The number of copies of the constitutional setup block in a code text and
\* in what enforcement inserted into it and appended to it.
Copies(seq, piece) == Cardinality({i \in DOMAIN seq : seq[i] = piece})
SetupBlocks(effect) ==
  Copies(effect.text, "<constitutionalSetup>") + Copies(effect.code.ins, "<constitutionalSetup>")
    + Copies(effect.code.app, "<constitutionalSetup>")

\* C23: the code of a finished effect holds the constitutional setup block at
\* most once: addConstitutionalSetup applied to code that already has the
\* block leaves the code as it is, and the enforcement that follows adds no
\* second copy.
C23_SetupBlockAtMostOnce ==
  /\ (side = "generator" /\ tplResult.pc = "again") => tplResult.result = tplResult.code
  /\ (side = "generator" /\ tplResult.pc = "finished") => SetupBlocks(tplResult.effect) <= 1

\* C23 witness: a finished effect with the setup block in its code, to which
\* enforcement has appended blocks of its own.
C23_Witness ==
  /\ side = "generator" /\ tplResult.pc = "finished"
  /\ tplResult.options.enableConstitution
  /\ Copies(tplResult.effect.text, "<constitutionalSetup>") = 1
  /\ Len(tplResult.effect.code.app) >= 3

Placeholders ==
  {"{{EFFECT_NAME}}", "{{ENERGY}}", "{{COMPLEXITY}}", "{{TARGET_FPS}}", "{{MAX_MEMORY}}",
   "{{FRAME_TIME}}"}

\* C28: the code of the effect generateFromPrompt returns holds no placeholder
\* of the form {{NAME}}, for every prompt and every valid set of options.
C28_NoPlaceholderLeft ==
  (side = "generator" /\ tplResult.pc = "finished") =>
    \A i \in DOMAIN tplResult.effect.text : tplResult.effect.text[i] \notin Placeholders

=============================================================================
